---- MODULE Spec2Model ----
(***************************************************************************)
(* A model of file-compass: the chunker (src/file_compass/chunker.py) and  *)
(* the MCP gateway tools (src/file_compass/gateway.py).                    *)
(* The Merkle tree and the index engine (merkle.py, indexer.py) are        *)
(* modelled from their documented behaviour: a symbolic collision-free     *)
(* hash, a full build that replaces the index in one step, an incremental  *)
(* update that applies one file per batch.                                 *)
(*                                                                         *)
(* Text is a sequence of one-character strings.  A file content is one     *)
(* flat text in which "\n" separates the lines, as in the source.          *)
(* Token arithmetic is exact integer arithmetic: int(n * 1.3) is           *)
(* (13 n) \div 10 and int(m * (len / total)) is (m * len) \div total,      *)
(* which is what the float expressions of the source evaluate to for the   *)
(* sizes this model draws.                                                 *)
(***************************************************************************)
EXTENDS Integers, Sequences, FiniteSets, TLC

\* The chunker: one call of FileChunker.chunk_file.
VARIABLES
    path_suffix,   \* path.suffix.lower() of the file
    file_content,  \* the file's content (supplied, or what read_text returns)
    readable,      \* FALSE: no content was supplied and read_text raises
    parse_tree,    \* what ast.parse(content) gives, for a .py file
    chunker,       \* the FileChunker: max_tokens, overlap_tokens, min_tokens
    returned,      \* the list chunk_file returned
    cpc            \* "start" before the call, "done" after it

chunkerVars ==
    <<path_suffix, file_content, readable, parse_tree, chunker, returned, cpc>>

\* The gateway: the MCP tools and what they work on.
VARIABLES
    index_inst,    \* the module global _index: "None" or "FileIndex"
    files_indexed, \* what the index's get_status reports as files_indexed
    chunks_indexed,\* what the index's get_status reports as chunks_indexed
    fs,            \* the file system: path -> [kind, nlines]
    roots,         \* the configured root directories (config.directories)
    call,          \* the last tool call: its name and arguments
    resp,          \* what the last tool call returned or raised
    search_calls   \* how many times index.search has been invoked

\* get_index_instance under concurrent callers.
VARIABLES
    module_index,  \* the module global _index: 0 for None, else the number
                   \* of the FileIndex it holds
    index_lock,    \* _index_lock: 0 when free, else the task holding it
    constructed,   \* how many FileIndex objects have been constructed
    tasks          \* the concurrent tool calls: task -> [pc, op, got, via]

lazyVars == <<module_index, index_lock, constructed, tasks>>

gatewayVars ==
    <<index_inst, files_indexed, chunks_indexed, fs, roots, call, resp,
      search_calls, lazyVars>>

\* The Merkle tree: two trees built from two file-record sets, and their diff.
VARIABLES
    old_files,     \* the file records the old tree is built from
    new_files,     \* the file records the new tree is built from
    old_tree,      \* the old MerkleTree: its leaves in the order they were added
    new_tree,      \* the new MerkleTree
    diff_result,   \* the last diff: [added, modified, removed]
    mpc            \* "start", "built", "diffed", "reloaded"; "idle" when unused

merkleVars == <<old_files, new_files, old_tree, new_tree, diff_result, mpc>>

\* The engine: the index (metadata store, vector index, persisted Merkle
\* tree), the files on disk, builds and searches.
VARIABLES
    disk,          \* the files under the roots: relative path -> file record
    store_files,   \* metadata store, files: relative path -> file record
    store_chunks,  \* metadata store, chunks (each with its vector id)
    vectors,       \* vector index: the chunks that have a vector
    merkle_state,  \* the persisted Merkle tree
    build_run,     \* the build in progress or just finished
    build_stats,   \* the statistics the last build returned
    answer,        \* the results a search is returning in this step
    budget         \* how many changes of the disk are left

engineVars ==
    <<disk, store_files, store_chunks, vectors, merkle_state, build_run,
      build_stats, answer, budget>>

coreVars == <<merkleVars, engineVars>>

vars == <<chunkerVars, gatewayVars, coreVars>>

\* ------------------------------------------------------------------ bounds

\* Most lines of a short file content.
MaxLines == 3
\* Most function/class definition nodes of a parsed Python file.
MaxNodes == 2
\* Long contents have lengths within LongSlack of the preview length.
LongSlack == 2
\* Tall contents have up to ClassPreviewLines + 1 + TallSlack lines.
TallSlack == 1
\* Most files the index reports.
MaxFiles == 2
\* The number of concurrent tool calls that ask for the index.
MaxTasks == 3
\* Most results index.search returns.
MaxResults == 1
\* Cap of the counter of index.search invocations.
MaxCalls == 1
\* The number of relative paths a scan can emit.
MaxPaths == 3
\* How often the files on disk change.
MaxChanges == 1

\* ------------------------------------------------------- program constants

\* _make_preview(content, max_len=200)
PreviewMaxLen == 200
\* preview_end = min(start + 30, end)
ClassPreviewLines == 30
\* heading_pattern: ^(#{1,6})\s+(.+)$
MaxHeadingLevel == 6
\* file_search: r.preview[:200]
ResultPreviewLen == 200
\* top_k = max(1, min(50, top_k))
TopKMax == 50
\* for i, line in enumerate(lines[:100])
PreviewLineLimit == 100

\* -------------------------------------------------------------------- text

NL == "\n"
SP == " "
HASH == "#"

\* str.isspace() on one character, over the model's alphabet.
IsSpace(c) == c \in {SP, NL, "\t"}

Min(a, b) == IF a < b THEN a ELSE b
Max(a, b) == IF a > b THEN a ELSE b

\* s[a:b] of Python for 0 <= a, 0 <= b (b is clamped to len(s)).
Slice(s, a, b) ==
    LET hi == Min(b, Len(s))
    IN  IF a >= hi THEN << >> ELSE SubSeq(s, a + 1, hi)

\* s[a:b] of Python where a or b may be negative (counted from the end).
PySlice(s, a, b) ==
    LET n  == Len(s)
        lo == IF a < 0 THEN Max(0, n + a) ELSE Min(a, n)
        hi == IF b < 0 THEN Max(0, n + b) ELSE Min(b, n)
    IN  IF lo >= hi THEN << >> ELSE SubSeq(s, lo + 1, hi)

\* n copies of character c.
Rep(c, n) == [i \in 1..n |-> c]

\* Number of leading whitespace characters of s.
RECURSIVE LeadSpaces(_)
LeadSpaces(s) ==
    IF s = << >> \/ ~IsSpace(Head(s)) THEN 0 ELSE 1 + LeadSpaces(Tail(s))

\* Number of trailing whitespace characters of s.
RECURSIVE TrailSpaces(_)
TrailSpaces(s) ==
    IF s = << >> \/ ~IsSpace(s[Len(s)]) THEN 0
    ELSE 1 + TrailSpaces(SubSeq(s, 1, Len(s) - 1))

\* str.lstrip()
LStrip(s) == SubSeq(s, LeadSpaces(s) + 1, Len(s))

\* str.rstrip()
RStrip(s) == SubSeq(s, 1, Len(s) - TrailSpaces(s))

\* str.strip(): whitespace removed at both ends.
Strip(s) == RStrip(LStrip(s))

\* s.split(sep) for a one-character separator: always at least one piece.
RECURSIVE Split(_, _)
Split(s, sep) ==
    LET idx == {i \in 1..Len(s) : s[i] = sep}
    IN  IF idx = {} THEN <<s>>
        ELSE LET k == CHOOSE i \in idx : \A j \in idx : i <= j
             IN  <<SubSeq(s, 1, k - 1)>> \o Split(SubSeq(s, k + 1, Len(s)), sep)

\* content.split("\n"): the lines of a text.
SplitLines(s) == Split(s, NL)

\* "\n".join(lines)
RECURSIVE JoinLines(_)
JoinLines(ls) ==
    IF ls = << >> THEN << >>
    ELSE IF Len(ls) = 1 THEN ls[1]
    ELSE ls[1] \o <<NL>> \o JoinLines(Tail(ls))

\* content.count("\n")
CountNL(s) == Cardinality({i \in 1..Len(s) : s[i] = NL})

\* len(text.split()): the number of maximal runs of non-whitespace.
WordCount(s) ==
    Cardinality({i \in 1..Len(s) :
        ~IsSpace(s[i]) /\ (i = 1 \/ IsSpace(s[i - 1]))})

\* whether t occurs in s as a contiguous subsequence (t in s).
Contains(s, t) ==
    \E i \in 0..(Len(s) - Len(t)) : SubSeq(s, i + 1, i + Len(t)) = t

\* whether p is a prefix of s (s.startswith(p)).
IsPrefix(p, s) == Len(p) <= Len(s) /\ SubSeq(s, 1, Len(p)) = p

\* ----------------------------------------------------------------- chunker

\* The text of the elided marker appended to a truncated class chunk:
\* "\n    # ... (class continues)"
ClassMarker ==
    <<NL, SP, SP, SP, SP, HASH, SP, ".", ".", ".", SP, "(", "c", "l", "a", "s",
      "s", SP, "c", "o", "n", "t", "i", "n", "u", "e", "s", ")">>

Ellipsis == <<".", ".", ".">>

\* round(word_count * 1.3): 13 * word_count / 10 rounded to the nearest
\* integer, a tie to the even one.
RoundedTokens(word_count) ==
    LET q == (13 * word_count) \div 10
        r == (13 * word_count) % 10
    IN  IF r < 5 THEN q
        ELSE IF r > 5 THEN q + 1
        ELSE IF q % 2 = 0 THEN q ELSE q + 1

\* The token estimate rounded to the nearest integer.
EstimateTokens_rounded(text) == RoundedTokens(WordCount(text))

\* FileChunker._estimate_tokens: int(len(text.split()) * 1.3)
EstimateTokens(text) == (WordCount(text) * 13) \div 10

\* FileChunker._make_preview with str.rstrip in place of str.strip.
MakePreview_rstripOnly(content, max_len) ==
    LET preview == RStrip(Slice(content, 0, max_len))
    IN  IF Len(content) > max_len THEN preview \o Ellipsis ELSE preview

\* FileChunker._make_preview without the cut at max_len.
MakePreview_noCut(content, max_len) ==
    LET preview == Strip(content)
    IN  IF Len(content) > max_len THEN preview \o Ellipsis ELSE preview

\* FileChunker._make_preview
MakePreview(content, max_len) ==
    LET preview == Strip(Slice(content, 0, max_len))
    IN  IF Len(content) > max_len THEN preview \o Ellipsis ELSE preview

\* Chunk(content, chunk_type, name, line_start, line_end, preview)
Chunk(content, chunk_type, name, line_start, line_end) ==
    [content    |-> content,
     chunk_type |-> chunk_type,
     name       |-> name,
     line_start |-> line_start,
     line_end   |-> line_end,
     preview    |-> MakePreview(content, PreviewMaxLen)]

NoName == "None"

\* The overlap loop of _chunk_sliding_window: lines are taken from the end of
\* current_chunk while overlap_size + len(prev_line) <= overlap_chars.
\* taken is the number of lines taken so far; the result is
\* [lines |-> overlap_lines, size |-> overlap_size].
RECURSIVE OverlapLines(_, _, _, _)
OverlapLines(current_chunk, taken, size, overlap_chars) ==
    LET n == Len(current_chunk)
    IN  IF taken = n
        THEN [lines |-> current_chunk, size |-> size]
        ELSE LET prev_line == current_chunk[n - taken]
             IN  IF size + Len(prev_line) > overlap_chars
                 THEN [lines |-> SubSeq(current_chunk, n - taken + 1, n),
                       size  |-> size]
                 ELSE OverlapLines(current_chunk, taken + 1,
                                   size + Len(prev_line) + 1, overlap_chars)

\* The main loop without the final chunk: the lines collected after the
\* last flush are not saved.
RECURSIVE WindowLoop_noFinalChunk(_, _, _, _, _)
WindowLoop_noFinalChunk(lines, i, st, max_chars, overlap_chars) ==
    IF i > Len(lines)
    THEN st.chunks
    ELSE
      LET line       == lines[i]
          line_chars == Len(line) + 1
          flush      == st.current_chars + line_chars > max_chars
                        /\ st.current_chunk # << >>
          ov         == OverlapLines(st.current_chunk, 0, 0, overlap_chars)
          st1 == IF flush
                 THEN [chunks |-> Append(st.chunks,
                                     Chunk(JoinLines(st.current_chunk), "window",
                                           NoName, st.chunk_start_line, i - 1)),
                       current_chunk    |-> ov.lines,
                       current_chars    |-> ov.size,
                       chunk_start_line |-> i - Len(ov.lines)]
                 ELSE st
          st2 == [st1 EXCEPT !.current_chunk = Append(@, line),
                             !.current_chars = @ + line_chars]
      IN  WindowLoop_noFinalChunk(lines, i + 1, st2, max_chars, overlap_chars)

\* The main loop of _chunk_sliding_window from line i on.  st holds the loop
\* variables chunks, current_chunk, current_chars and chunk_start_line.
RECURSIVE WindowLoop(_, _, _, _, _)
WindowLoop(lines, i, st, max_chars, overlap_chars) ==
    IF i > Len(lines)
    THEN IF st.current_chunk # << >>
         THEN Append(st.chunks,
                     Chunk(JoinLines(st.current_chunk), "window", NoName,
                           st.chunk_start_line, Len(lines)))
         ELSE st.chunks
    ELSE
      LET line       == lines[i]
          line_chars == Len(line) + 1
          flush      == st.current_chars + line_chars > max_chars
                        /\ st.current_chunk # << >>
          ov         == OverlapLines(st.current_chunk, 0, 0, overlap_chars)
          st1 == IF flush
                 THEN [chunks |-> Append(st.chunks,
                                     Chunk(JoinLines(st.current_chunk), "window",
                                           NoName, st.chunk_start_line, i - 1)),
                       current_chunk    |-> ov.lines,
                       current_chars    |-> ov.size,
                       chunk_start_line |-> i - Len(ov.lines)]
                 ELSE st
          st2 == [st1 EXCEPT !.current_chunk = Append(@, line),
                             !.current_chars = @ + line_chars]
      IN  WindowLoop(lines, i + 1, st2, max_chars, overlap_chars)

\* FileChunker._chunk_sliding_window
ChunkSlidingWindow(self, content) ==
    LET lines        == SplitLines(content)
        total_tokens == EstimateTokens(content)
    IN  IF total_tokens = 0 THEN << >>
        ELSE
          LET max_chars     == (self.max_tokens * Len(content)) \div total_tokens
              overlap_chars == (self.overlap_tokens * Len(content)) \div total_tokens
              st0 == [chunks |-> << >>, current_chunk |-> << >>,
                      current_chars |-> 0, chunk_start_line |-> 1]
          IN  WindowLoop(lines, 1, st0, max_chars, overlap_chars)

\* FileChunker._chunk_structured
ChunkStructured(self, content) == ChunkSlidingWindow(self, content)

\* Number of leading "#" characters of a line.
RECURSIVE LeadHashes(_)
LeadHashes(s) ==
    IF s = << >> \/ Head(s) # HASH THEN 0 ELSE 1 + LeadHashes(Tail(s))

\* heading_pattern.match(line): ^(#{1,6})\s+(.+)$
HeadingMatches(line) ==
    LET h == LeadHashes(line)
    IN  /\ h >= 1
        /\ h <= MaxHeadingLevel
        /\ Len(line) >= h + 2
        /\ IsSpace(line[h + 1])

\* len(match.group(1))
HeadingLevel(line) == LeadHashes(line)

\* match.group(2): \s+ is greedy and gives one character back when the rest
\* of the line is all whitespace.
HeadingTitle(line) ==
    LET rest == SubSeq(line, LeadHashes(line) + 1, Len(line))
        w    == LeadSpaces(rest)
    IN  IF w < Len(rest) THEN SubSeq(rest, w + 1, Len(rest))
        ELSE <<rest[Len(rest)]>>

\* The headings of a file: (0-based line index, level, title), in line order.
RECURSIVE Headings(_, _)
Headings(lines, i) ==
    IF i > Len(lines) THEN << >>
    ELSE IF HeadingMatches(lines[i])
         THEN <<[line_idx |-> i - 1, level |-> HeadingLevel(lines[i]),
                 title |-> HeadingTitle(lines[i])]>> \o Headings(lines, i + 1)
         ELSE Headings(lines, i + 1)

\* The end of a section taken one line too far: the section runs through
\* the line of the next heading of the same or a higher level.
SectionEnd_pastNextHeading(headings, idx, nlines) ==
    LET later == {j \in (idx + 1)..Len(headings) :
                     headings[j].level <= headings[idx].level}
    IN  IF later = {} THEN nlines
        ELSE headings[CHOOSE j \in later : \A k \in later : j <= k].line_idx + 1

\* The end of a section taken at the next heading of any level.
SectionEnd_nextHeadingAnyLevel(headings, idx, nlines) ==
    IF idx = Len(headings) THEN nlines ELSE headings[idx + 1].line_idx

\* The end of the section of heading idx: the line index of the next heading
\* of the same or a higher level, or len(lines).
SectionEnd(headings, idx, nlines) ==
    LET later == {j \in (idx + 1)..Len(headings) :
                     headings[j].level <= headings[idx].level}
    IN  IF later = {} THEN nlines
        ELSE headings[CHOOSE j \in later : \A k \in later : j <= k].line_idx

\* The section loop of _chunk_markdown from heading idx on.
RECURSIVE SectionLoop(_, _, _)
SectionLoop(lines, headings, idx) ==
    IF idx > Len(headings) THEN << >>
    ELSE
      LET h             == headings[idx]
          end_idx       == SectionEnd(headings, idx, Len(lines))
          chunk_lines   == Slice(lines, h.line_idx, end_idx)
          chunk_content == Strip(JoinLines(chunk_lines))
          rest          == SectionLoop(lines, headings, idx + 1)
      IN  IF chunk_content # << >>
          THEN <<Chunk(chunk_content, "section", h.title,
                       h.line_idx + 1, end_idx)>> \o rest
          ELSE rest

\* FileChunker._chunk_markdown
ChunkMarkdown(self, content) ==
    LET lines    == SplitLines(content)
        headings == Headings(lines, 1)
    IN  IF headings = << >> THEN ChunkSlidingWindow(self, content)
        ELSE SectionLoop(lines, headings, 1)

\* A parsed definition node of a Python file (ast.FunctionDef,
\* ast.AsyncFunctionDef or ast.ClassDef): kind, name, lineno, end_lineno and
\* deco, the least lineno of its decorators (0 when decorator_list is empty).
\* ParseError stands for ast.parse raising SyntaxError.
ParseError == [ok |-> FALSE, nodes |-> {}]

\* ast.parse returning a tree with these definition nodes.
Parsed(nodes) == [ok |-> TRUE, nodes |-> nodes]

\* start: node.lineno, or the first decorator line
NodeStart(node) == IF node.deco # 0 THEN node.deco ELSE node.lineno

\* end = node.end_lineno or start
NodeEnd(node) == IF node.end_lineno # 0 THEN node.end_lineno ELSE NodeStart(node)

\* ast.walk order: breadth first, so by nesting depth, then by position.
NodeDepth(tree, n) ==
    Cardinality({m \in tree : m # n /\ m.lineno <= n.lineno
                              /\ n.end_lineno <= m.end_lineno})

\* A walk that visits the top-level definitions only, by position.
RECURSIVE WalkOrder_topLevelOnly(_, _)
WalkOrder_topLevelOnly(tree, todo) ==
    IF todo = {} THEN << >>
    ELSE LET first == CHOOSE n \in todo : \A m \in todo : n.lineno <= m.lineno
             rest  == WalkOrder_topLevelOnly(tree, todo \ {first})
         IN  IF NodeDepth(tree, first) = 0 THEN <<first>> \o rest ELSE rest

RECURSIVE WalkOrder(_, _)
WalkOrder(tree, todo) ==
    IF todo = {} THEN << >>
    ELSE LET first == CHOOSE n \in todo : \A m \in todo :
                         \/ NodeDepth(tree, n) < NodeDepth(tree, m)
                         \/ /\ NodeDepth(tree, n) = NodeDepth(tree, m)
                            /\ n.lineno <= m.lineno
         IN  <<first>> \o WalkOrder(tree, todo \ {first})

\* The function branch of the walk loop of _chunk_python: the chunk of a
\* FunctionDef / AsyncFunctionDef node, emitted unless it is too large.
FunctionChunk(self, lines, node) ==
    LET start         == NodeStart(node)
        end           == NodeEnd(node)
        chunk_content == JoinLines(Slice(lines, start - 1, end))
    IN  [emit  |-> EstimateTokens(chunk_content) <= self.max_tokens * 2,
         chunk |-> Chunk(chunk_content, "function", node.name, start, end),
         start |-> start, end |-> end]

\* The class branch of the walk loop without end = preview_end: line_end
\* stays at the end of the whole class when the chunk is truncated.
ClassChunk_endNotAdjusted(self, lines, node) ==
    LET start         == NodeStart(node)
        end           == NodeEnd(node)
        chunk_content == JoinLines(Slice(lines, start - 1, end))
        large         == EstimateTokens(chunk_content) > self.max_tokens * 2
        preview_end   == Min(start + ClassPreviewLines, end)
        content1      == IF large
                         THEN JoinLines(Slice(lines, start - 1, preview_end))
                              \o ClassMarker
                         ELSE chunk_content
    IN  [emit  |-> TRUE,
         chunk |-> Chunk(content1, "class", node.name, start, end),
         start |-> start, end |-> end]

\* The class branch of the walk loop of _chunk_python: the chunk of a
\* ClassDef node, truncated to its first lines plus a marker when large.
ClassChunk(self, lines, node) ==
    LET start         == NodeStart(node)
        end           == NodeEnd(node)
        chunk_content == JoinLines(Slice(lines, start - 1, end))
        large         == EstimateTokens(chunk_content) > self.max_tokens * 2
        preview_end   == Min(start + ClassPreviewLines, end)
        content1      == IF large
                         THEN JoinLines(Slice(lines, start - 1, preview_end))
                              \o ClassMarker
                         ELSE chunk_content
        end1          == IF large THEN preview_end ELSE end
    IN  [emit  |-> TRUE,
         chunk |-> Chunk(content1, "class", node.name, start, end1),
         start |-> start, end |-> end1]

\* The walk loop of _chunk_python over the nodes in ast.walk order; the
\* result is [chunks, covered_lines].
RECURSIVE WalkLoop(_, _, _, _)
WalkLoop(self, lines, nodes, acc) ==
    IF nodes = << >> THEN acc
    ELSE
      LET node == Head(nodes)
          r    == IF node.kind = "function" THEN FunctionChunk(self, lines, node)
                  ELSE ClassChunk(self, lines, node)
          acc1 == IF r.emit
                  THEN [chunks  |-> Append(acc.chunks, r.chunk),
                        covered |-> acc.covered \cup (r.start..r.end)]
                  ELSE acc
      IN  WalkLoop(self, lines, Tail(nodes), acc1)

\* The groups of consecutive uncovered lines, as (first, last) line numbers,
\* in line order.
RECURSIVE LineGroups(_, _, _)
LineGroups(nlines, covered, i) ==
    IF i > nlines THEN << >>
    ELSE IF i \in covered THEN LineGroups(nlines, covered, i + 1)
    ELSE LET stop == {j \in i..nlines : j + 1 > nlines \/ (j + 1) \in covered}
             last == CHOOSE j \in stop : \A k \in stop : j <= k
         IN  <<[first |-> i, last |-> last]>>
             \o LineGroups(nlines, covered, last + 1)

\* The module-level chunks of _chunk_python: one per group of uncovered
\* lines whose token estimate reaches min_tokens.
RECURSIVE ModuleChunks(_, _, _)
ModuleChunks(self, lines, groups) ==
    IF groups = << >> THEN << >>
    ELSE LET g       == Head(groups)
             content == JoinLines(SubSeq(lines, g.first, g.last))
             rest    == ModuleChunks(self, lines, Tail(groups))
         IN  IF EstimateTokens(content) >= self.min_tokens
             THEN <<Chunk(content, "module", NoName, g.first, g.last)>> \o rest
             ELSE rest

\* Stable insertion of chunk c into a list sorted by line_start.
RECURSIVE InsertByStart(_, _)
InsertByStart(sorted, c) ==
    IF sorted = << >> THEN <<c>>
    ELSE IF sorted[Len(sorted)].line_start <= c.line_start
         THEN Append(sorted, c)
         ELSE Append(InsertByStart(SubSeq(sorted, 1, Len(sorted) - 1), c),
                     sorted[Len(sorted)])

\* _chunk_python without the final sort: the chunks stay in emission order.
SortByStart_notSorted(chunks) == chunks

\* chunks.sort(key=lambda c: c.line_start): a stable sort.
RECURSIVE SortByStart(_)
SortByStart(chunks) ==
    IF chunks = << >> THEN << >>
    ELSE InsertByStart(SortByStart(SubSeq(chunks, 1, Len(chunks) - 1)),
                       chunks[Len(chunks)])

\* FileChunker._chunk_python; tree is what ast.parse(content) gives.
ChunkPython(self, content, tree) ==
    LET lines == SplitLines(content)
    IN  IF ~tree.ok THEN ChunkSlidingWindow(self, content)
        ELSE
          LET acc    == WalkLoop(self, lines, WalkOrder(tree.nodes, tree.nodes),
                                 [chunks |-> << >>, covered |-> {}])
              groups == LineGroups(Len(lines), acc.covered, 1)
          IN  SortByStart(acc.chunks \o ModuleChunks(self, lines, groups))

\* The filter of chunk_file: chunks whose token estimate reaches min_tokens.
RECURSIVE FilterTiny(_, _)
FilterTiny(self, chunks) ==
    IF chunks = << >> THEN << >>
    ELSE IF EstimateTokens(Head(chunks).content) >= self.min_tokens
         THEN <<Head(chunks)>> \o FilterTiny(self, Tail(chunks))
         ELSE FilterTiny(self, Tail(chunks))

\* The chunks of the strategy chunk_file chooses by the path's suffix.
StrategyChunks(self, suffix, content, tree) ==
    IF suffix = ".py" THEN ChunkPython(self, content, tree)
    ELSE IF suffix = ".md" THEN ChunkMarkdown(self, content)
    ELSE IF suffix \in {".json", ".yaml", ".yml"} THEN ChunkStructured(self, content)
    ELSE ChunkSlidingWindow(self, content)

\* The whole-file fallback with line_end = content.count("\n"), one short.
WholeFileChunk_noPlusOne(content) ==
    Chunk(content, "whole_file", NoName, 1, CountNL(content))

\* The whole-file fallback of chunk_file.
WholeFileChunk(content) ==
    Chunk(content, "whole_file", NoName, 1, CountNL(content) + 1)

\* chunk_file without the fallback: the filtered list is returned as it is.
ChunkFileContent_noFallback(self, suffix, content, tree) ==
    FilterTiny(self, StrategyChunks(self, suffix, content, tree))

\* FileChunker.chunk_file with the content at hand (supplied or read).
ChunkFileContent(self, suffix, content, tree) ==
    LET chunks == FilterTiny(self, StrategyChunks(self, suffix, content, tree))
    IN  IF chunks = << >> THEN <<WholeFileChunk(content)>> ELSE chunks

\* ----------------------------------------------------------------- gateway

\* Optional[...]: None, or a value.
None_ == [some |-> FALSE, val |-> 0]
Some(v) == [some |-> TRUE, val |-> v]

\* The truth value Python gives an Optional[int]: None and 0 are false.
Truthy(o) == o.some /\ o.val # 0

\* A path is the sequence of its components ("/a/f" is <<"/a", "/f">>);
\* messages and comma-separated arguments are texts over the same tokens.
ErrNoFiles == <<"No files indexed yet">>
ErrFileNotFound == <<"File not found: ">>
AccessDeniedText == <<"Access denied">>

\* A tool's response: a returned dict (keys names its keys) or a raised
\* exception (raised, with its message in error).
BlankResp ==
    [raised |-> FALSE, keys |-> {}, error |-> << >>, query |-> << >>,
     results |-> << >>, count |-> 0, total_indexed |-> 0, path |-> << >>,
     lines |-> <<0, 0>>, content |-> << >>, more |-> 0, total_lines |-> 0,
     success |-> FALSE, files_indexed |-> 0, chunks_indexed |-> 0,
     directories |-> << >>]

Raise(msg) == [BlankResp EXCEPT !.raised = TRUE, !.error = msg]

ErrorResp(msg) == [BlankResp EXCEPT !.keys = {"error"}, !.error = msg]

\* round(r.relevance, 3), relevance counted in units of 0.0001
Round3(x) == (x + 5) \div 10

\* r.preview[:200] + "..." if len(r.preview) > 200 else r.preview
ResultPreview(preview) ==
    IF Len(preview) > ResultPreviewLen
    THEN Slice(preview, 0, ResultPreviewLen) \o Ellipsis
    ELSE preview

\* One formatted match of file_search.
FormatMatch(r) ==
    [path       |-> r.path,
     chunk_type |-> r.chunk_type,
     lines      |-> <<r.line_start, r.line_end>>,
     relevance  |-> Round3(r.relevance),
     preview    |-> ResultPreview(r.preview)]

\* [t.strip() for t in file_types.split(",")]; None when file_types is
\* None or empty.
RECURSIVE StripEach(_)
StripEach(pieces) ==
    IF pieces = << >> THEN << >>
    ELSE <<Strip(Head(pieces))>> \o StripEach(Tail(pieces))

ParseList(arg) ==
    IF arg.some /\ arg.val # << >> THEN Some(StripEach(Split(arg.val, ",")))
    ELSE [some |-> FALSE, val |-> << >>]

\* max(1, min(50, top_k))
ClampTopK(top_k) == Max(1, Min(TopKMax, top_k))

NoSearch == [query |-> << >>, top_k |-> 0, file_types |-> [some |-> FALSE, val |-> << >>]]

\* file_search without the files_indexed == 0 check: the search always runs.
FileSearchCall_noEmptyCheck(indexed, query, top_k, file_types, status_raises, outcome) ==
    IF status_raises
    THEN [resp |-> Raise(<<"get_status failed">>), searched |-> FALSE,
          args |-> NoSearch]
    ELSE
      LET args == [query |-> query, top_k |-> ClampTopK(top_k),
                   file_types |-> ParseList(file_types)]
          matches == [k \in 1..Len(outcome.results) |->
                         FormatMatch(outcome.results[k])]
      IN  IF outcome.raises
          THEN [resp |-> Raise(<<"search failed">>), searched |-> TRUE,
                args |-> args]
          ELSE [resp |-> [BlankResp EXCEPT
                            !.keys = {"query", "results", "count",
                                      "total_indexed", "hint"},
                            !.query = query,
                            !.results = matches,
                            !.count = Len(matches),
                            !.total_indexed = indexed],
                searched |-> TRUE, args |-> args]

\* file_search after get_index_instance: status_raises and outcome say what
\* the index does when asked (get_status raising; search raising or
\* returning outcome.results).  The result is the response, whether
\* index.search was invoked, and with what arguments.
FileSearchCall(indexed, query, top_k, file_types, status_raises, outcome) ==
    IF status_raises
    THEN [resp |-> Raise(<<"get_status failed">>), searched |-> FALSE,
          args |-> NoSearch]
    ELSE IF indexed = 0
    THEN [resp |-> [ErrorResp(ErrNoFiles) EXCEPT !.keys = {"error", "hint"}],
          searched |-> FALSE, args |-> NoSearch]
    ELSE
      LET args == [query |-> query, top_k |-> ClampTopK(top_k),
                   file_types |-> ParseList(file_types)]
      IN  IF outcome.raises
          THEN [resp |-> Raise(<<"search failed">>), searched |-> TRUE,
                args |-> args]
          ELSE
            LET results == outcome.results
                matches == [k \in 1..Len(results) |-> FormatMatch(results[k])]
            IN  [resp |-> [BlankResp EXCEPT
                             !.keys = {"query", "results", "count",
                                       "total_indexed", "hint"},
                             !.query = query,
                             !.results = matches,
                             !.count = Len(matches),
                             !.total_indexed = indexed],
                 searched |-> TRUE, args |-> args]

\* One numbered line of file_preview: f"{line_offset + i:4d} | {line}"
NumberedLine(n, line) == [n |-> n, line |-> line]

\* content.split("\n") of a file: line i stands for the text of its i-th
\* line.
FileLines(file) == [i \in 1..file.nlines |-> i]

\* file_preview without the try/except around the read.
FilePreviewCall_readRaises(file, path, line_start, line_end) ==
    IF file.kind = "missing" THEN ErrorResp(ErrFileNotFound \o path)
    ELSE IF file.kind = "unreadable"
    THEN Raise(<<"[Errno 13] Permission denied: '">> \o path \o <<"'">>)
    ELSE
      LET all_lines   == FileLines(file)
          start_idx   == IF line_start.some THEN Max(0, line_start.val - 1) ELSE 0
          end_idx     == IF Truthy(line_end) THEN line_end.val ELSE Len(all_lines)
          lines       == IF line_start.some
                         THEN PySlice(all_lines, start_idx, end_idx)
                         ELSE all_lines
          line_offset == IF line_start.some THEN start_idx + 1 ELSE 1
          shown       == Slice(lines, 0, PreviewLineLimit)
          numbered    == [i \in 1..Len(shown) |->
                             NumberedLine(line_offset + i - 1, shown[i])]
      IN  [BlankResp EXCEPT
             !.keys = {"path", "lines", "content", "total_lines"},
             !.path = path,
             !.lines = <<line_offset, line_offset + Len(numbered) - 1>>,
             !.content = numbered,
             !.more = IF Len(lines) > PreviewLineLimit
                      THEN Len(lines) - PreviewLineLimit ELSE 0,
             !.total_lines = Len(all_lines)]

\* file_preview numbering the returned lines from 1, whatever the slice.
FilePreviewCall_offsetOne(file, path, line_start, line_end) ==
    IF file.kind = "missing" THEN ErrorResp(ErrFileNotFound \o path)
    ELSE IF file.kind = "unreadable"
    THEN ErrorResp(<<"[Errno 13] Permission denied: '">> \o path \o <<"'">>)
    ELSE
      LET all_lines   == FileLines(file)
          start_idx   == IF line_start.some THEN Max(0, line_start.val - 1) ELSE 0
          end_idx     == IF Truthy(line_end) THEN line_end.val ELSE Len(all_lines)
          lines       == IF line_start.some
                         THEN PySlice(all_lines, start_idx, end_idx)
                         ELSE all_lines
          line_offset == 1
          shown       == Slice(lines, 0, PreviewLineLimit)
          numbered    == [i \in 1..Len(shown) |->
                             NumberedLine(line_offset + i - 1, shown[i])]
      IN  [BlankResp EXCEPT
             !.keys = {"path", "lines", "content", "total_lines"},
             !.path = path,
             !.lines = <<line_offset, line_offset + Len(numbered) - 1>>,
             !.content = numbered,
             !.more = IF Len(lines) > PreviewLineLimit
                      THEN Len(lines) - PreviewLineLimit ELSE 0,
             !.total_lines = Len(all_lines)]

\* file_preview; file is the file-system entry of path.
FilePreviewCall(file, path, line_start, line_end) ==
    IF file.kind = "missing" THEN ErrorResp(ErrFileNotFound \o path)
    ELSE IF file.kind = "unreadable"
    THEN ErrorResp(<<"[Errno 13] Permission denied: '">> \o path \o <<"'">>)
    ELSE
      LET all_lines   == FileLines(file)
          start_idx   == IF line_start.some THEN Max(0, line_start.val - 1) ELSE 0
          end_idx     == IF Truthy(line_end) THEN line_end.val ELSE Len(all_lines)
          lines       == IF line_start.some
                         THEN PySlice(all_lines, start_idx, end_idx)
                         ELSE all_lines
          line_offset == IF line_start.some THEN start_idx + 1 ELSE 1
          shown       == Slice(lines, 0, PreviewLineLimit)
          numbered    == [i \in 1..Len(shown) |->
                             NumberedLine(line_offset + i - 1, shown[i])]
      IN  [BlankResp EXCEPT
             !.keys = {"path", "lines", "content", "total_lines"},
             !.path = path,
             !.lines = <<line_offset, line_offset + Len(numbered) - 1>>,
             !.content = numbered,
             !.more = IF Len(lines) > PreviewLineLimit
                      THEN Len(lines) - PreviewLineLimit ELSE 0,
             !.total_lines = Len(all_lines)]

\* file_index_status after get_index_instance.
FileIndexStatusCall(indexed, chunks, status_raises) ==
    IF status_raises THEN Raise(<<"get_status failed">>)
    ELSE [BlankResp EXCEPT
            !.keys = {"files_indexed", "chunks_indexed", "index_size_mb",
                      "last_build", "file_types", "hint"},
            !.files_indexed = indexed,
            !.chunks_indexed = chunks]

\* The directory list of file_index_scan.
ScanDirList(cfg_roots, directories) ==
    IF directories.some /\ directories.val # << >>
    THEN StripEach(Split(directories.val, ","))
    ELSE cfg_roots

\* file_index_scan with an incremental update unless a rebuild is forced.
FileIndexScanIndexCalls_incrementalUnlessForced(cfg_roots, directories, force_rebuild) ==
    << [method      |-> IF force_rebuild THEN "build_index"
                        ELSE "incremental_update",
        directories |-> ScanDirList(cfg_roots, directories)] >>

\* The calls file_index_scan makes on the index: one build_index over the
\* directory list, whatever force_rebuild is.
FileIndexScanIndexCalls(cfg_roots, directories, force_rebuild) ==
    << [method      |-> "build_index",
        directories |-> ScanDirList(cfg_roots, directories)] >>

\* file_index_scan without the try/except around build_index.
FileIndexScanCall_noTry(cfg_roots, directories, force_rebuild, build) ==
    IF build.raises
    THEN Raise(<<"build failed">>)
    ELSE [BlankResp EXCEPT
            !.keys = {"success", "files_indexed", "chunks_indexed",
                      "duration_seconds", "directories", "hint"},
            !.success = TRUE,
            !.files_indexed = build.files_indexed,
            !.chunks_indexed = build.chunks_indexed,
            !.directories = ScanDirList(cfg_roots, directories)]

\* file_index_scan after get_index_instance; build says what
\* index.build_index does (raising, or returning stats).
FileIndexScanCall(cfg_roots, directories, force_rebuild, build) ==
    IF build.raises
    THEN [BlankResp EXCEPT !.keys = {"success", "error", "hint"},
                           !.success = FALSE,
                           !.error = <<"build failed">>]
    ELSE [BlankResp EXCEPT
            !.keys = {"success", "files_indexed", "chunks_indexed",
                      "duration_seconds", "directories", "hint"},
            !.success = TRUE,
            !.files_indexed = build.files_indexed,
            !.chunks_indexed = build.chunks_indexed,
            !.directories = ScanDirList(cfg_roots, directories)]

\* ------------------------------------------------------------- Merkle tree
\* Modelled from the specification (sections 3 and 4.4): the module
\* file_compass.merkle is not part of the sources at hand.

\* H(...): a 256-bit digest, taken as free of collisions: the digest of a
\* tuple is the tuple itself under a tag.
LeafHash(relative_path, content_hash, chunk_count, modified_at) ==
    [kind |-> "leaf",
     of   |-> <<relative_path, content_hash, chunk_count, modified_at>>]

NodeHash(left, right) == [kind |-> "node", of |-> <<left, right>>]

EmptyHash == [kind |-> "empty", of |-> << >>]

\* A leaf: (relative_path, content_hash, chunk_count, modified_timestamp)
\* and its digest.
FileNode(relative_path, content_hash, chunk_count, modified_at) ==
    [relative_path |-> relative_path,
     content_hash  |-> content_hash,
     chunk_count   |-> chunk_count,
     modified_at   |-> modified_at,
     hash          |-> LeafHash(relative_path, content_hash, chunk_count,
                                modified_at)]

\* MerkleTree(): no leaves.
EmptyTree == << >>

\* The relative paths of a tree, and the leaf of a path.
TreePaths(tree) == {tree[i].relative_path : i \in 1..Len(tree)}
LeafOf(tree, path) ==
    tree[CHOOSE i \in 1..Len(tree) : tree[i].relative_path = path]

\* MerkleTree.add_file: one leaf per relative path; a path added again
\* replaces its leaf.
AddFile(tree, relative_path, content_hash, chunk_count, modified_at) ==
    LET leaf == FileNode(relative_path, content_hash, chunk_count, modified_at)
    IN  IF relative_path \in TreePaths(tree)
        THEN [i \in 1..Len(tree) |->
                 IF tree[i].relative_path = relative_path THEN leaf
                 ELSE tree[i]]
        ELSE Append(tree, leaf)

\* The leaves sorted by relative path.
SortedLeaves(tree) ==
    [i \in 1..Len(tree) |->
        LeafOf(tree, CHOOSE p \in TreePaths(tree) :
                        Cardinality({q \in TreePaths(tree) : q <= p}) = i)]

\* One level up: pairs of children combine with H(left || right), an odd
\* last node is promoted as it is.
RECURSIVE CombineLevel(_)
CombineLevel(hashes) ==
    IF Len(hashes) = 0 THEN << >>
    ELSE IF Len(hashes) = 1 THEN hashes
    ELSE <<NodeHash(hashes[1], hashes[2])>>
         \o CombineLevel(SubSeq(hashes, 3, Len(hashes)))

RECURSIVE RootOf(_)
RootOf(hashes) ==
    IF Len(hashes) = 0 THEN EmptyHash
    ELSE IF Len(hashes) = 1 THEN hashes[1]
    ELSE RootOf(CombineLevel(hashes))

\* The root hash over the leaves in the order they were added.
RootHash_insertionOrder(tree) ==
    RootOf([i \in 1..Len(tree) |-> tree[i].hash])

\* tree.root.hash: the root hash over the leaves sorted by relative path.
RootHash(tree) ==
    RootOf([i \in 1..Len(tree) |-> SortedLeaves(tree)[i].hash])

\* The diff that takes a file as modified only when its content hash
\* differs.
Diff_byContentHash(old, new) ==
    [added    |-> TreePaths(new) \ TreePaths(old),
     removed  |-> TreePaths(old) \ TreePaths(new),
     modified |-> {p \in TreePaths(old) \cap TreePaths(new) :
                     LeafOf(old, p).content_hash # LeafOf(new, p).content_hash}]

\* The diff with the two trees taken the wrong way round.
Diff_swapped(old, new) ==
    [added    |-> TreePaths(old) \ TreePaths(new),
     removed  |-> TreePaths(new) \ TreePaths(old),
     modified |-> {p \in TreePaths(old) \cap TreePaths(new) :
                     LeafOf(old, p).hash # LeafOf(new, p).hash}]

\* The diff of two trees, by relative path: only in new: added; only in
\* old: removed; in both with different leaf hashes: modified.
Diff(old, new) ==
    [added    |-> TreePaths(new) \ TreePaths(old),
     removed  |-> TreePaths(old) \ TreePaths(new),
     modified |-> {p \in TreePaths(old) \cap TreePaths(new) :
                     LeafOf(old, p).hash # LeafOf(new, p).hash}]

\* The tree as persisted in merkle.state: the leaves' fields, by path.
Persist(tree) ==
    [i \in 1..Len(tree) |->
        LET leaf == SortedLeaves(tree)[i]
        IN  <<leaf.relative_path, leaf.content_hash, leaf.chunk_count,
              leaf.modified_at, leaf.hash>>]

\* The tree read back from merkle.state.
Reload(data) ==
    [i \in 1..Len(data) |->
        [relative_path |-> data[i][1], content_hash |-> data[i][2],
         chunk_count |-> data[i][3], modified_at |-> data[i][4],
         hash |-> data[i][5]]]

\* ----------------------------------------------------- Merkle tree machine

\* Relative paths, numbered in the order of their names.
RelPaths == 1..MaxPaths

\* A file record as the scanner emits it, or no file at that path.
Absent == [present |-> FALSE, content_hash |-> 0, modified_at |-> 0]
ContentHashes == {1, 2}
Timestamps == {1, 2}
FileRecords ==
    {Absent} \cup [present : {TRUE}, content_hash : ContentHashes,
                   modified_at : Timestamps]
FileSets == [RelPaths -> FileRecords]

PresentPaths(files) == {p \in RelPaths : files[p].present}

\* The chunker is deterministic: the number of chunks of a file follows
\* from its content.
ChunkCountOf(content_hash) == content_hash

\* The orders in which a scan can emit the files of a set.
ScanOrders(paths) ==
    {o \in [1..Cardinality(paths) -> paths] :
        \A i, j \in 1..Cardinality(paths) : i # j => o[i] # o[j]}

\* The tree after add_file for each file in scan order.
RECURSIVE BuildTree(_, _, _)
BuildTree(files, order, tree) ==
    IF order = << >> THEN tree
    ELSE LET p == Head(order)
         IN  BuildTree(files, Tail(order),
                       AddFile(tree, p, files[p].content_hash,
                               ChunkCountOf(files[p].content_hash),
                               files[p].modified_at))

NoDiff == [added |-> {}, modified |-> {}, removed |-> {}]

MerkleIdle ==
    /\ old_files = [p \in RelPaths |-> Absent]
    /\ new_files = [p \in RelPaths |-> Absent]
    /\ old_tree = EmptyTree
    /\ new_tree = EmptyTree
    /\ diff_result = NoDiff
    /\ mpc = "idle"

\* ------------------------------------------------------------------ engine
\* Modelled from the specification (sections 3, 4.5, 4.8, 4.10, 5, 7): the
\* module file_compass.indexer is not part of the sources at hand.

\* A file on disk as a scan sees it; chunkable is FALSE for a file whose
\* chunking fails (chunk_file raises, or returns no chunk because the file
\* cannot be read).
NoFile ==
    [present |-> FALSE, content_hash |-> 0, modified_at |-> 0,
     chunkable |-> FALSE]

DiskRecords ==
    {NoFile} \cup
    {[present |-> TRUE, content_hash |-> 1, modified_at |-> 1, chunkable |-> TRUE],
     [present |-> TRUE, content_hash |-> 2, modified_at |-> 1, chunkable |-> TRUE],
     [present |-> TRUE, content_hash |-> 1, modified_at |-> 2, chunkable |-> TRUE],
     [present |-> TRUE, content_hash |-> 1, modified_at |-> 1, chunkable |-> FALSE]}

DiskSets == [RelPaths -> DiskRecords]

NoFiles == [p \in RelPaths |-> NoFile]

\* The chunks a build makes of a file: none when chunking fails.
ChunksOfFile(path, rec) ==
    IF rec.present /\ rec.chunkable
    THEN {[path |-> path, content_hash |-> rec.content_hash, k |-> k] :
             k \in 1..ChunkCountOf(rec.content_hash)}
    ELSE {}

ChunksOfFiles(files) == UNION {ChunksOfFile(p, files[p]) : p \in RelPaths}

\* The Merkle tree of a scan: add_file for each file in scan order.
RECURSIVE ScanTree(_, _, _)
ScanTree(files, order, tree) ==
    IF order = << >> THEN tree
    ELSE LET p == Head(order)
         IN  ScanTree(files, Tail(order),
                      AddFile(tree, p, files[p].content_hash,
                              Cardinality(ChunksOfFile(p, files[p])),
                              files[p].modified_at))

\* The members of a set of paths in ascending order.
RECURSIVE PathSeq(_)
PathSeq(paths) ==
    IF paths = {} THEN << >>
    ELSE LET p == CHOOSE x \in paths : \A y \in paths : x <= y
         IN  <<p>> \o PathSeq(paths \ {p})

\* The orders in which the scanner emits the files: unspecified; here by
\* path, ascending or descending.
Reversed(seq) == [i \in 1..Len(seq) |-> seq[Len(seq) + 1 - i]]
EngineScanOrders(paths) == {PathSeq(paths), Reversed(PathSeq(paths))}

\* The batches of an incremental build, one per file: the removed paths,
\* then the modified ones, then the added ones.
Batches(d) ==
    [i \in 1..Cardinality(d.removed) |->
        [op |-> "remove", path |-> PathSeq(d.removed)[i]]]
    \o [i \in 1..Cardinality(d.modified) |->
        [op |-> "modify", path |-> PathSeq(d.modified)[i]]]
    \o [i \in 1..Cardinality(d.added) |->
        [op |-> "add", path |-> PathSeq(d.added)[i]]]

\* No build has run since the index was opened or the disk changed.
NoBuild ==
    [kind |-> "none", scanned |-> NoFiles, tree |-> EmptyTree,
     todo |-> << >>, before |-> NoFiles, diff |-> NoDiff, chunks_done |-> 0]

NoStats ==
    [files_indexed |-> 0, chunks_indexed |-> 0, files_added |-> 0,
     files_modified |-> 0, files_removed |-> 0]

BuildRunning == build_run.kind \in {"full", "incremental"}

EngineIdle ==
    /\ disk = NoFiles
    /\ store_files = NoFiles
    /\ store_chunks = {}
    /\ vectors = {}
    /\ merkle_state = EmptyTree
    /\ build_run = NoBuild
    /\ build_stats = NoStats
    /\ answer = {}
    /\ budget = 0

\* A full build that leaves out the files whose chunking fails.
FullBuild_skipsFailed(scanned) ==
    LET kept == [p \in RelPaths |->
                    IF scanned[p].chunkable THEN scanned[p] ELSE NoFile]
    IN  [files  |-> kept,
         chunks |-> ChunksOfFiles(kept),
         stats  |-> [NoStats EXCEPT
                       !.files_indexed = Cardinality(PresentPaths(kept)),
                       !.chunks_indexed = Cardinality(ChunksOfFiles(kept))]]

\* What a full build makes of the scanned files: every file is recorded, a
\* file whose chunking fails with no chunks; the statistics count them.
FullBuild(scanned) ==
    [files  |-> scanned,
     chunks |-> ChunksOfFiles(scanned),
     stats  |-> [NoStats EXCEPT
                   !.files_indexed = Cardinality(PresentPaths(scanned)),
                   !.chunks_indexed = Cardinality(ChunksOfFiles(scanned))]]

\* A batch whose modify keeps the old chunks and vectors of the file.
ApplyBatch_keepsOldChunks(index, scanned, b) ==
    LET p    == b.path
        old  == {c \in index.chunks : c.path = p}
        oldv == {c \in index.vectors : c.path = p}
        new  == ChunksOfFile(p, scanned[p])
    IN  IF b.op = "remove"
        THEN [files   |-> [index.files EXCEPT ![p] = NoFile],
              chunks  |-> index.chunks \ old,
              vectors |-> index.vectors \ oldv,
              made    |-> 0]
        ELSE [files   |-> [index.files EXCEPT ![p] = scanned[p]],
              chunks  |-> index.chunks \cup new,
              vectors |-> index.vectors \cup new,
              made    |-> Cardinality(new)]

\* A batch whose remove deletes the file record and its chunks from the
\* metadata store but leaves the vectors in the vector index.
ApplyBatch_leavesVectors(index, scanned, b) ==
    LET p    == b.path
        old  == {c \in index.chunks : c.path = p}
        oldv == {c \in index.vectors : c.path = p}
        new  == ChunksOfFile(p, scanned[p])
    IN  IF b.op = "remove"
        THEN [files   |-> [index.files EXCEPT ![p] = NoFile],
              chunks  |-> index.chunks \ old,
              vectors |-> index.vectors,
              made    |-> 0]
        ELSE [files   |-> [index.files EXCEPT ![p] = scanned[p]],
              chunks  |-> (index.chunks \ old) \cup new,
              vectors |-> (index.vectors \ oldv) \cup new,
              made    |-> Cardinality(new)]

\* One batch of an incremental build, applied to the index [files, chunks,
\* vectors]: remove cascades to the file's chunks and vectors; modify
\* deletes the old chunks and vectors, then chunks and embeds again; add
\* chunks and embeds.  made counts the chunks indexed by the batch.
ApplyBatch(index, scanned, b) ==
    LET p    == b.path
        old  == {c \in index.chunks : c.path = p}
        oldv == {c \in index.vectors : c.path = p}
        new  == ChunksOfFile(p, scanned[p])
    IN  IF b.op = "remove"
        THEN [files   |-> [index.files EXCEPT ![p] = NoFile],
              chunks  |-> index.chunks \ old,
              vectors |-> index.vectors \ oldv,
              made    |-> 0]
        ELSE [files   |-> [index.files EXCEPT ![p] = scanned[p]],
              chunks  |-> (index.chunks \ old) \cup new,
              vectors |-> (index.vectors \ oldv) \cup new,
              made    |-> Cardinality(new)]

\* The results of a search over the index: each candidate of the vector
\* index with its chunk and file record from the metadata store.
SearchResults(index) ==
    {[vector      |-> v,
      chunk_found |-> v \in index.chunks,
      file        |-> index.files[v.path]] : v \in index.vectors}

\* The Merkle tree and the engine at rest, for the behaviours of the other
\* parts.
CoreIdle == MerkleIdle /\ EngineIdle

\* ---------------------------------------------------------- chunker inputs

\* The lines short contents are made of: blank, one word, two words, an
\* indented line, a line with trailing whitespace, headings of level 1 and
\* 2, and a line of four words.
Vocab ==
    { << >>,
      <<"a">>,
      <<"a", SP, "a">>,
      <<SP, "a", SP, "a">>,
      <<"a", SP>>,
      <<HASH, SP, "a">>,
      <<HASH, HASH, SP, "a">>,
      <<"a", SP, "a", SP, "a", SP, "a">> }

ShortContents ==
    {JoinLines(ls) : ls \in UNION {[1..n -> Vocab] : n \in 1..MaxLines}}

\* One-line contents about PreviewMaxLen long: lead leading blanks, a blank
\* at position gap (none when gap = 0), "a" elsewhere.
LongText(len, lead, gap) ==
    [i \in 1..len |-> IF i <= lead \/ i = gap THEN SP ELSE "a"]

LongLengths == (PreviewMaxLen - LongSlack)..(PreviewMaxLen + LongSlack)

LongContents ==
    {LongText(len, lead, gap) :
        len \in LongLengths, lead \in 0..1, gap \in {0} \cup LongLengths}

\* Contents of about ClassPreviewLines lines: a header line of two words in
\* column 0, then indented lines of one word (a class or function body).
TallText(n) ==
    JoinLines([i \in 1..n |-> IF i = 1 THEN <<"a", SP, "a">> ELSE <<SP, "a">>])

TallContents ==
    {TallText(n) : n \in ClassPreviewLines..(ClassPreviewLines + 1 + TallSlack)}

\* The same with an indented header of two words on the line before the
\* last: a method that starts about where a large class is cut.
TallNestedText(n) ==
    JoinLines([i \in 1..n |-> IF i = 1 THEN <<"a", SP, "a">>
                              ELSE IF i = n - 1 THEN <<SP, "a", SP, "a">>
                              ELSE <<SP, "a">>])

TallNestedContents ==
    {TallNestedText(n) :
        n \in ClassPreviewLines..(ClassPreviewLines + 1 + TallSlack)}

Contents ==
    ShortContents \cup LongContents \cup TallContents \cup TallNestedContents

Suffixes == {".py", ".md", ".json", ".txt"}

\* FileChunker(max_chunk_tokens, chunk_overlap_tokens, min_chunk_tokens):
\* each is positive (a zero argument is replaced by the configured value).
Chunkers ==
    [max_tokens : {1, 2, 3}, overlap_tokens : {1, 2}, min_tokens : {1, 2}]

\* No parse is made of a file that is not a .py file.
NoTree == ParseError

\* A line that holds code: not blank and not a "#" comment.
IsCodeLine(line) == LStrip(line) # << >> /\ Head(LStrip(line)) # HASH

\* The definition nodes a parse of these lines can hold: the header line
\* holds the keyword and the name, a decorator line and the last line hold
\* code, decorators come before the header.
NodesOf(lines) ==
    {n \in [kind : {"function", "class"}, name : {"n"},
            lineno : 1..Len(lines), end_lineno : 1..Len(lines),
            deco : 0..Len(lines)] :
        /\ n.lineno <= n.end_lineno
        /\ n.deco < n.lineno
        /\ IsCodeLine(lines[n.lineno])
        /\ WordCount(lines[n.lineno]) >= 2
        /\ IsCodeLine(lines[n.end_lineno])
        /\ n.deco # 0 => IsCodeLine(lines[n.deco])}

\* Two nodes of one tree are apart, or one lies in the body of the other.
Apart(m, n) == NodeEnd(m) < NodeStart(n) \/ NodeEnd(n) < NodeStart(m)
Inside(m, n) == n.lineno < NodeStart(m) /\ NodeEnd(m) <= NodeEnd(n)

\* A top-level header starts in column 0, a nested one is indented.
WellNested(lines, t) ==
    /\ \A m, n \in t : m # n => Apart(m, n) \/ Inside(m, n) \/ Inside(n, m)
    /\ \A n \in t :
          (\E m \in t : m # n /\ Inside(n, m)) <=> LeadSpaces(lines[n.lineno]) > 0

RECURSIVE NodeSets(_, _)
NodeSets(nodes, k) ==
    IF k = 0 THEN {{}}
    ELSE LET prev == NodeSets(nodes, k - 1)
         IN  prev \cup {t \cup {n} : t \in prev, n \in nodes}

\* What ast.parse(content) can give: SyntaxError, or a tree of at most
\* MaxNodes definition nodes.
Trees(text) ==
    LET lines == SplitLines(text)
    IN  {ParseError} \cup
        {Parsed(t) : t \in {u \in NodeSets(NodesOf(lines), MaxNodes) :
                                WellNested(lines, u)}}

\* ------------------------------------------------- get_index_instance
\* The steps of one call: "check" (if _index is not None), "acquire"
\* (async with _index_lock), "recheck" (the check under the lock),
\* "construct" (_index = FileIndex()), "load" (the existing index is
\* loaded), "done".  A task may be suspended between any two steps, which
\* is at least every interleaving the event loop allows.

Tasks == 1..MaxTasks

\* The tools that call get_index_instance.
IndexTools == {"file_search", "file_index_status", "file_index_scan"}

\* A task that has not called yet.
NoTask == [pc |-> "idle", op |-> "none", got |-> 0, via |-> "none"]

\* The call raised: got is no instance.
RaisedInCall == -1

\* No task has asked for the index.
LazyIdle ==
    /\ module_index = 0
    /\ index_lock = 0
    /\ constructed = 0
    /\ tasks = [t \in Tasks |-> NoTask]

\* get_index_instance that constructs as soon as it holds the lock.
UnderLock_noRecheck(index) == "construct"

\* Under the lock: if _index is not None: return _index
UnderLock(index) == IF index # 0 THEN "return" ELSE "construct"

\* ---------------------------------------------------------- chunker machine

\* index.build_index has not been called.
NotBuilt == [raises |-> FALSE, files_indexed |-> 0, chunks_indexed |-> 0]

\* No tool has been called yet.
NoCall ==
    [op |-> "none", query |-> << >>, top_k |-> 0, file_types |-> None_,
     path |-> << >>, line_start |-> None_, line_end |-> None_,
     directories |-> None_, force_rebuild |-> FALSE,
     status_raises |-> FALSE, search_raises |-> FALSE,
     indexed_before |-> 0, calls_before |-> 0, search_args |-> NoSearch,
     build |-> NotBuilt, index_calls |-> << >>]

\* The gateway at rest, for the behaviours of the chunker alone: the
\* chunker is used as a library, no tool server is set up (no file system
\* view, no configured roots).
GatewayIdle ==
    /\ LazyIdle
    /\ index_inst = "None"
    /\ files_indexed = 0
    /\ chunks_indexed = 0
    /\ fs = << >>
    /\ roots = << >>
    /\ call = NoCall
    /\ resp = BlankResp
    /\ search_calls = 0

InitChunker ==
    /\ path_suffix \in Suffixes
    /\ readable \in BOOLEAN
    /\ file_content \in (IF readable THEN Contents ELSE {<< >>})
    /\ parse_tree \in (IF path_suffix = ".py" /\ readable
                       THEN Trees(file_content) ELSE {NoTree})
    /\ chunker \in Chunkers
    /\ returned = << >>
    /\ cpc = "start"
    /\ GatewayIdle
    /\ CoreIdle

\* FileChunker.chunk_file(path, content)
ChunkFile ==
    /\ cpc = "start"
    /\ returned' = IF readable
                   THEN ChunkFileContent(chunker, path_suffix, file_content,
                                         parse_tree)
                   ELSE << >>
    /\ cpc' = "done"
    /\ UNCHANGED <<path_suffix, file_content, readable, parse_tree, chunker>>
    /\ UNCHANGED gatewayVars
    /\ UNCHANGED coreVars

NextChunker == ChunkFile

SpecChunker == InitChunker /\ [][NextChunker]_vars

\* ----------------------------------------------------------- gateway inputs

\* The files of the model's file system.
PathInA == <<"/a", "/f">>
PathBigInA == <<"/a", "/big">>
PathOutside == <<"/e">>
PathOutsideMissing == <<"/b", "/a">>
PathOutsideUnreadable == <<"/d", "/x">>
PathMissingInC == <<"/c", "/g">>

Paths ==
    {PathInA, PathBigInA, PathOutside, PathOutsideMissing,
     PathOutsideUnreadable, PathMissingInC}

\* A file of n lines, a path that does not exist, a file read_text fails on.
FileOf(n) == [kind |-> "file", nlines |-> n]
MissingFile == [kind |-> "missing", nlines |-> 0]
UnreadableFile == [kind |-> "unreadable", nlines |-> 0]

InitialFs ==
    [p \in Paths |->
        IF p = PathInA THEN FileOf(3)
        ELSE IF p = PathBigInA THEN FileOf(PreviewLineLimit + 1)
        ELSE IF p = PathOutside THEN FileOf(2)
        ELSE IF p = PathOutsideUnreadable THEN UnreadableFile
        ELSE MissingFile]

\* config.directories
RootChoices == { << <<"/a">> >>, << <<"/c">> >>, << <<"/a">>, <<"/c">> >> }

\* whether path lies under one of the configured roots
UnderRoot(path, cfg_roots) ==
    \E k \in 1..Len(cfg_roots) : IsPrefix(cfg_roots[k], path)

Queries == { << >>, <<"a">> }
TopKs == {0, 10, 51}
FileTypeArgs == {None_, Some(<<"python", ",", SP, "markdown">>)}
LineStarts == {None_, Some(-1), Some(0), Some(1), Some(2), Some(4)}
LineEnds == {None_, Some(-1), Some(0), Some(1), Some(3)}
DirectoryArgs == {None_, Some(<<"/a", ",", SP, "/c">>)}

\* What index.search can return: results whose previews are short or long.
ResultPool ==
    { [path |-> PathInA, chunk_type |-> "function", line_start |-> 1,
       line_end |-> 3, relevance |-> 9996, preview |-> <<"a">>],
      [path |-> PathBigInA, chunk_type |-> "window", line_start |-> 2,
       line_end |-> 2, relevance |-> 3004,
       preview |-> Rep("a", ResultPreviewLen + 1)] }

SearchOutcomes ==
    {[raises |-> TRUE, results |-> << >>]} \cup
    {[raises |-> FALSE, results |-> r] :
        r \in UNION {[1..n -> ResultPool] : n \in 0..MaxResults}}

\* What index.build_index can do: raise, or index some files.
BuildOutcomes ==
    {[raises |-> TRUE, files_indexed |-> 0, chunks_indexed |-> 0]} \cup
    {[raises |-> FALSE, files_indexed |-> n, chunks_indexed |-> 2 * n] :
        n \in 0..MaxFiles}

\* ---------------------------------------------------------- gateway machine

\* The chunker at rest, for the behaviours of the gateway alone.
ChunkerIdle ==
    /\ path_suffix = ".txt"
    /\ file_content = << >>
    /\ readable = TRUE
    /\ parse_tree = NoTree
    /\ chunker = [max_tokens |-> 1, overlap_tokens |-> 1, min_tokens |-> 1]
    /\ returned = << >>
    /\ cpc = "done"

InitGateway ==
    /\ LazyIdle
    /\ index_inst = "None"
    /\ files_indexed \in 0..MaxFiles
    /\ chunks_indexed = files_indexed
    /\ fs = InitialFs
    /\ roots \in RootChoices
    /\ call = NoCall
    /\ resp = BlankResp
    /\ search_calls = 0
    /\ ChunkerIdle
    /\ CoreIdle

\* get_index_instance: the index is created on first use.
GetIndexInstance == index_inst' = "FileIndex"

\* The tool file_search.
FileSearch ==
    /\ search_calls < MaxCalls
    /\ \E query \in Queries, top_k \in TopKs, file_types \in FileTypeArgs,
          status_raises \in BOOLEAN, outcome \in SearchOutcomes :
         LET r == FileSearchCall(files_indexed, query, top_k, file_types,
                                 status_raises, outcome)
         IN  /\ GetIndexInstance
             /\ call' = [NoCall EXCEPT !.op = "file_search", !.query = query,
                           !.top_k = top_k, !.file_types = file_types,
                           !.status_raises = status_raises,
                           !.search_raises = outcome.raises,
                           !.indexed_before = files_indexed,
                           !.calls_before = search_calls,
                           !.search_args = r.args]
             /\ resp' = r.resp
             /\ search_calls' = IF r.searched THEN search_calls + 1
                                ELSE search_calls
    /\ UNCHANGED <<files_indexed, chunks_indexed, fs, roots>>
    /\ UNCHANGED lazyVars
    /\ UNCHANGED chunkerVars
    /\ UNCHANGED coreVars

\* The tool file_preview.
FilePreview ==
    /\ \E path \in Paths, line_start \in LineStarts, line_end \in LineEnds :
         /\ call' = [NoCall EXCEPT !.op = "file_preview", !.path = path,
                       !.line_start = line_start, !.line_end = line_end,
                       !.indexed_before = files_indexed,
                       !.calls_before = search_calls]
         /\ resp' = FilePreviewCall(fs[path], path, line_start, line_end)
    /\ UNCHANGED <<index_inst, files_indexed, chunks_indexed, fs, roots,
                   search_calls>>
    /\ UNCHANGED lazyVars
    /\ UNCHANGED chunkerVars
    /\ UNCHANGED coreVars

\* The tool file_index_status.
FileIndexStatus ==
    /\ \E status_raises \in BOOLEAN :
         /\ GetIndexInstance
         /\ call' = [NoCall EXCEPT !.op = "file_index_status",
                       !.status_raises = status_raises,
                       !.indexed_before = files_indexed,
                       !.calls_before = search_calls]
         /\ resp' = FileIndexStatusCall(files_indexed, chunks_indexed,
                                        status_raises)
    /\ UNCHANGED <<files_indexed, chunks_indexed, fs, roots, search_calls>>
    /\ UNCHANGED lazyVars
    /\ UNCHANGED chunkerVars
    /\ UNCHANGED coreVars

\* The tool file_index_scan: a successful build replaces what the index
\* reports, a failed one leaves it.
FileIndexScan ==
    /\ \E directories \in DirectoryArgs, force_rebuild \in BOOLEAN,
          build \in BuildOutcomes :
         /\ GetIndexInstance
         /\ call' = [NoCall EXCEPT !.op = "file_index_scan",
                       !.directories = directories,
                       !.force_rebuild = force_rebuild,
                       !.build = build,
                       !.index_calls =
                           FileIndexScanIndexCalls(roots, directories,
                                                   force_rebuild),
                       !.indexed_before = files_indexed,
                       !.calls_before = search_calls]
         /\ resp' = FileIndexScanCall(roots, directories, force_rebuild, build)
         /\ files_indexed' = IF build.raises THEN files_indexed
                             ELSE build.files_indexed
         /\ chunks_indexed' = IF build.raises THEN chunks_indexed
                              ELSE build.chunks_indexed
    /\ UNCHANGED <<fs, roots, search_calls>>
    /\ UNCHANGED lazyVars
    /\ UNCHANGED chunkerVars
    /\ UNCHANGED coreVars

\* ------------------------------------------- get_index_instance machine

InitLazy ==
    /\ LazyIdle
    /\ index_inst = "None"
    /\ files_indexed = 0
    /\ chunks_indexed = 0
    /\ fs = << >>
    /\ roots = << >>
    /\ call = NoCall
    /\ resp = BlankResp
    /\ search_calls = 0
    /\ ChunkerIdle
    /\ CoreIdle

RestOfGateway ==
    UNCHANGED <<index_inst, files_indexed, chunks_indexed, fs, roots, call,
                resp, search_calls, chunkerVars, coreVars>>

\* A tool is called and awaits get_index_instance.
CallTool(t) ==
    /\ tasks[t].pc = "idle"
    /\ \E op \in IndexTools :
         tasks' = [tasks EXCEPT ![t].pc = "check", ![t].op = op]
    /\ UNCHANGED <<module_index, index_lock, constructed>>
    /\ RestOfGateway

\* if _index is not None: return _index
FirstCheck(t) ==
    /\ tasks[t].pc = "check"
    /\ tasks' = IF module_index # 0
                 THEN [tasks EXCEPT ![t].pc = "done", ![t].got = module_index,
                                    ![t].via = "first check"]
                 ELSE [tasks EXCEPT ![t].pc = "acquire"]
    /\ UNCHANGED <<module_index, index_lock, constructed>>
    /\ RestOfGateway

\* async with _index_lock: entered when the lock is free.
Acquire(t) ==
    /\ tasks[t].pc = "acquire"
    /\ index_lock = 0
    /\ index_lock' = t
    /\ tasks' = [tasks EXCEPT ![t].pc = "recheck"]
    /\ UNCHANGED <<module_index, constructed>>
    /\ RestOfGateway

\* The check under the lock; returning leaves the async with block and
\* releases the lock.
SecondCheck(t) ==
    /\ tasks[t].pc = "recheck"
    /\ IF UnderLock(module_index) = "return"
       THEN /\ tasks' = [tasks EXCEPT ![t].pc = "done",
                                       ![t].got = module_index,
                                       ![t].via = "second check"]
            /\ index_lock' = 0
       ELSE /\ tasks' = [tasks EXCEPT ![t].pc = "construct"]
            /\ UNCHANGED index_lock
    /\ UNCHANGED <<module_index, constructed>>
    /\ RestOfGateway

\* _index = FileIndex()
Construct(t) ==
    /\ tasks[t].pc = "construct"
    /\ constructed < MaxTasks
    /\ constructed' = constructed + 1
    /\ module_index' = constructed + 1
    /\ tasks' = [tasks EXCEPT ![t].pc = "load"]
    /\ UNCHANGED index_lock
    /\ RestOfGateway

\* The existing index is loaded if there is one, then return _index; a
\* failing load propagates out of the async with block.  Either way the
\* lock is released and _index stays set.
LoadAndReturn(t) ==
    /\ tasks[t].pc = "load"
    /\ \E load_raises \in BOOLEAN :
         tasks' = [tasks EXCEPT ![t].pc = "done",
                                ![t].got = IF load_raises THEN RaisedInCall
                                           ELSE module_index,
                                ![t].via = "constructed"]
    /\ index_lock' = 0
    /\ UNCHANGED <<module_index, constructed>>
    /\ RestOfGateway

NextLazy ==
    \E t \in Tasks :
        \/ CallTool(t)
        \/ FirstCheck(t)
        \/ Acquire(t)
        \/ SecondCheck(t)
        \/ Construct(t)
        \/ LoadAndReturn(t)

SpecLazy == InitLazy /\ [][NextLazy]_vars

NextGateway ==
    \/ FileSearch
    \/ FilePreview
    \/ FileIndexStatus
    \/ FileIndexScan

SpecGateway == InitGateway /\ [][NextGateway]_vars

\* ----------------------------------------------------- Merkle tree machine

InitMerkle ==
    /\ old_files \in FileSets
    /\ new_files \in FileSets
    /\ old_tree = EmptyTree
    /\ new_tree = EmptyTree
    /\ diff_result = NoDiff
    /\ mpc = "start"
    /\ ChunkerIdle
    /\ GatewayIdle
    /\ EngineIdle

\* Both trees are built, each by add_file in the order of a scan.
BuildTrees ==
    /\ mpc = "start"
    /\ \E oo \in ScanOrders(PresentPaths(old_files)),
          no \in ScanOrders(PresentPaths(new_files)) :
         /\ old_tree' = BuildTree(old_files, oo, EmptyTree)
         /\ new_tree' = BuildTree(new_files, no, EmptyTree)
    /\ mpc' = "built"
    /\ UNCHANGED <<old_files, new_files, diff_result>>
    /\ UNCHANGED <<chunkerVars, gatewayVars, engineVars>>

\* The new tree is diffed against the old one.
DiffTrees ==
    /\ mpc = "built"
    /\ diff_result' = Diff(old_tree, new_tree)
    /\ mpc' = "diffed"
    /\ UNCHANGED <<old_files, new_files, old_tree, new_tree>>
    /\ UNCHANGED <<chunkerVars, gatewayVars, engineVars>>

\* The old tree is persisted and read back, and diffed against itself.
ReloadAndDiff ==
    /\ mpc = "built"
    /\ new_tree' = Reload(Persist(old_tree))
    /\ diff_result' = Diff(old_tree, new_tree')
    /\ mpc' = "reloaded"
    /\ UNCHANGED <<old_files, new_files, old_tree>>
    /\ UNCHANGED <<chunkerVars, gatewayVars, engineVars>>

NextMerkle == BuildTrees \/ DiffTrees \/ ReloadAndDiff

SpecMerkle == InitMerkle /\ [][NextMerkle]_vars

\* ----------------------------------------------------------- engine machine

InitEngine ==
    /\ disk \in DiskSets
    /\ store_files = NoFiles
    /\ store_chunks = {}
    /\ vectors = {}
    /\ merkle_state = EmptyTree
    /\ build_run = NoBuild
    /\ build_stats = NoStats
    /\ answer = {}
    /\ budget = MaxChanges
    /\ ChunkerIdle
    /\ GatewayIdle
    /\ MerkleIdle

TheIndex == [files |-> store_files, chunks |-> store_chunks, vectors |-> vectors]

\* build_index starts: the roots are scanned, the files are chunked and
\* embedded and the new Merkle tree is made, aside from the index in use.
BuildStart ==
    /\ ~BuildRunning
    /\ \E order \in EngineScanOrders(PresentPaths(disk)) :
         build_run' = [NoBuild EXCEPT !.kind = "full", !.scanned = disk,
                         !.tree = ScanTree(disk, order, EmptyTree),
                         !.before = store_files]
    /\ build_stats' = NoStats
    /\ answer' = {}
    /\ UNCHANGED <<disk, store_files, store_chunks, vectors, merkle_state,
                   budget>>
    /\ UNCHANGED <<chunkerVars, gatewayVars, merkleVars>>

\* build_index ends: the index is replaced in one step and the Merkle tree
\* is persisted.
BuildCommit ==
    /\ build_run.kind = "full"
    /\ LET r == FullBuild(build_run.scanned)
       IN  /\ store_files' = r.files
           /\ store_chunks' = r.chunks
           /\ vectors' = r.chunks
           /\ build_stats' = r.stats
    /\ merkle_state' = Reload(Persist(build_run.tree))
    /\ build_run' = [build_run EXCEPT !.kind = "full_done"]
    /\ answer' = {}
    /\ UNCHANGED <<disk, budget>>
    /\ UNCHANGED <<chunkerVars, gatewayVars, merkleVars>>

\* incremental_update starts: the roots are scanned, the new Merkle tree is
\* made in memory and diffed against the persisted one.
IncrStart ==
    /\ ~BuildRunning
    /\ \E order \in EngineScanOrders(PresentPaths(disk)) :
         LET tree == ScanTree(disk, order, EmptyTree)
             d    == Diff(merkle_state, tree)
         IN  build_run' = [NoBuild EXCEPT !.kind = "incremental",
                             !.scanned = disk, !.tree = tree,
                             !.todo = Batches(d), !.before = store_files,
                             !.diff = d]
    /\ build_stats' = NoStats
    /\ answer' = {}
    /\ UNCHANGED <<disk, store_files, store_chunks, vectors, merkle_state,
                   budget>>
    /\ UNCHANGED <<chunkerVars, gatewayVars, merkleVars>>

\* One batch of the incremental build is applied, in one transaction.
IncrBatch ==
    /\ build_run.kind = "incremental"
    /\ build_run.todo # << >>
    /\ LET r == ApplyBatch(TheIndex, build_run.scanned, Head(build_run.todo))
       IN  /\ store_files' = r.files
           /\ store_chunks' = r.chunks
           /\ vectors' = r.vectors
           /\ build_run' = [build_run EXCEPT
                              !.todo = Tail(build_run.todo),
                              !.chunks_done = build_run.chunks_done + r.made]
    /\ answer' = {}
    /\ UNCHANGED <<disk, merkle_state, build_stats, budget>>
    /\ UNCHANGED <<chunkerVars, gatewayVars, merkleVars>>

\* incremental_update ends: the new Merkle tree is persisted and the
\* statistics are returned.
IncrFinish ==
    /\ build_run.kind = "incremental"
    /\ build_run.todo = << >>
    /\ merkle_state' = Reload(Persist(build_run.tree))
    /\ build_stats' = [NoStats EXCEPT
                         !.files_added = Cardinality(build_run.diff.added),
                         !.files_modified = Cardinality(build_run.diff.modified),
                         !.files_removed = Cardinality(build_run.diff.removed),
                         !.chunks_indexed = build_run.chunks_done]
    /\ build_run' = [build_run EXCEPT !.kind = "incr_done"]
    /\ answer' = {}
    /\ UNCHANGED <<disk, store_files, store_chunks, vectors, budget>>
    /\ UNCHANGED <<chunkerVars, gatewayVars, merkleVars>>

\* Files are added, modified and removed on disk, between builds.
ChangeDisk ==
    /\ ~BuildRunning
    /\ budget > 0
    /\ disk' \in DiskSets \ {disk}
    /\ budget' = budget - 1
    /\ build_run' = NoBuild
    /\ build_stats' = NoStats
    /\ answer' = {}
    /\ UNCHANGED <<store_files, store_chunks, vectors, merkle_state>>
    /\ UNCHANGED <<chunkerVars, gatewayVars, merkleVars>>

\* A search, at any moment, also between the steps of a build: it reads
\* the index as last written and returns its results.
Search ==
    /\ answer' = SearchResults(TheIndex)
    /\ UNCHANGED <<disk, store_files, store_chunks, vectors, merkle_state,
                   build_run, build_stats, budget>>
    /\ UNCHANGED <<chunkerVars, gatewayVars, merkleVars>>

NextEngine ==
    \/ BuildStart
    \/ BuildCommit
    \/ IncrStart
    \/ IncrBatch
    \/ IncrFinish
    \/ ChangeDisk
    \/ Search

SpecEngine == InitEngine /\ [][NextEngine]_vars

\* ------------------------------------------------------------- the system

\* The chunker and the gateway side by side: a behaviour is one of the
\* chunker or one of the gateway.
InitSystem == InitChunker \/ InitGateway

\* The tools are served only where the gateway is set up.
GatewayUp == roots # << >>

NextSystem == NextChunker \/ (GatewayUp /\ NextGateway)

SpecSystem == InitSystem /\ [][NextSystem]_vars

\* ------------------------------------------------------ claims: the chunker

\* The number of lines of the file: len(content.split("\n")).
FileLineCount == Len(SplitLines(file_content))

\* The text of the file's lines a..b joined by newlines.
RangeText(a, b) == JoinLines(SubSeq(SplitLines(file_content), a, b))

\* chunk_file has returned, with a content at hand.
Chunked == cpc = "done" /\ readable

\* The chunks of the chosen strategy, before the min_tokens filter.
Produced == StrategyChunks(chunker, path_suffix, file_content, parse_tree)

\* No chunk of the chosen strategy reaches min_tokens.
AllTiny ==
    \A i \in 1..Len(Produced) :
        EstimateTokens(Produced[i].content) < chunker.min_tokens

\* C1: with a content supplied or readable, chunk_file returns a non-empty
\* list; when no chunk of the chosen strategy reaches min_tokens the list is
\* one whole_file chunk with line_start 1, line_end = (number of "\n") + 1
\* and the whole content.
C1_NonEmptyAndFallback ==
    Chunked =>
        /\ Len(returned) >= 1
        /\ AllTiny =>
              /\ Len(returned) = 1
              /\ returned[1].chunk_type = "whole_file"
              /\ returned[1].line_start = 1
              /\ returned[1].line_end = CountNL(file_content) + 1
              /\ returned[1].content = file_content

\* C1 witness: the strategy produced chunks, all were filtered out, and the
\* file of several lines came back as one whole_file chunk.
C1_Witness ==
    /\ Chunked
    /\ Len(Produced) >= 1
    /\ AllTiny
    /\ CountNL(file_content) >= 1
    /\ returned[1].chunk_type = "whole_file"

\* C2: every returned chunk, whatever the strategy, has
\* 1 <= line_start <= line_end <= number of lines of the file.
C2_LineRangeInFile ==
    Chunked =>
        \A i \in 1..Len(returned) :
            /\ 1 <= returned[i].line_start
            /\ returned[i].line_start <= returned[i].line_end
            /\ returned[i].line_end <= FileLineCount

\* C2 witness: a Python file gave a class chunk cut at its first lines, and a
\* module chunk after it that ends at the last line of the file.
C2_Witness ==
    /\ Chunked
    /\ \E i, j \in 1..Len(returned) :
          /\ returned[i].chunk_type = "class"
          /\ returned[i].line_end = 1 + ClassPreviewLines
          /\ returned[j].chunk_type = "module"
          /\ returned[j].line_start = 2 + ClassPreviewLines
          /\ returned[j].line_end = FileLineCount

\* C3 as claimed: every returned chunk's content is exactly the text of the
\* file's lines line_start..line_end, Markdown sections and truncated class
\* chunks included.
C3_ExactRangeText ==
    Chunked =>
        \A i \in 1..Len(returned) :
            returned[i].content =
                RangeText(returned[i].line_start, returned[i].line_end)

\* C3 amended: a chunk's content is the text of its lines
\* line_start..line_end; for a Markdown section it is that text with the
\* whitespace at its ends stripped, and for a class chunk of an oversize
\* class it is that text followed by the marker
\* "\n    # ... (class continues)".
C3_RangeTextUpToStripAndMarker ==
    Chunked =>
        \A i \in 1..Len(returned) :
            LET c    == returned[i]
                text == RangeText(c.line_start, c.line_end)
            IN  IF c.chunk_type = "section"
                THEN /\ IsPrefix(c.content, text)
                     /\ c.content # << >>
                     /\ ~IsSpace(c.content[Len(c.content)])
                     /\ \A k \in (Len(c.content) + 1)..Len(text) : IsSpace(text[k])
                ELSE IF c.chunk_type = "class"
                THEN \/ /\ c.content = text
                        /\ EstimateTokens(text) <= 2 * chunker.max_tokens
                     \/ c.content = text \o ClassMarker
                ELSE c.content = text

\* C3 witness: a class chunk cut after its first lines, before the end of
\* the class, with the marker appended.
C3_Witness ==
    /\ Chunked
    /\ \E i \in 1..Len(returned) :
          /\ returned[i].chunk_type = "class"
          /\ returned[i].line_end = 1 + ClassPreviewLines
          /\ returned[i].line_end < FileLineCount
          /\ returned[i].content =
                RangeText(returned[i].line_start, returned[i].line_end)
                    \o ClassMarker

\* The preview of chunk c without the "..." marker that a content longer
\* than PreviewMaxLen gets.
PreviewBody(c) ==
    IF Len(c.content) > PreviewMaxLen
    THEN SubSeq(c.preview, 1, Len(c.preview) - Len(Ellipsis))
    ELSE c.preview

\* The marker is there iff the content is longer than PreviewMaxLen.
MarkerRight(c) ==
    Len(c.content) > PreviewMaxLen =>
        /\ Len(c.preview) >= Len(Ellipsis)
        /\ SubSeq(c.preview, Len(c.preview) - Len(Ellipsis) + 1,
                  Len(c.preview)) = Ellipsis

\* body is text[from + 1 .. from + Len(body)], it ends in no whitespace, and
\* what follows it in the first PreviewMaxLen characters is whitespace.
CutAfter(body, text, from) ==
    LET head == Min(Len(text), PreviewMaxLen)
    IN  /\ from + Len(body) <= head
        /\ SubSeq(text, from + 1, from + Len(body)) = body
        /\ body # << >> => ~IsSpace(body[Len(body)])
        /\ \A k \in (from + Len(body) + 1)..head : IsSpace(text[k])

Searched == call.op = "file_search"
Previewed == call.op = "file_preview"

\* The response is a returned dict with a string under "error".
IsErrorResponse == ~resp.raised /\ "error" \in resp.keys /\ resp.error # << >>

\* The last call invoked index.search.
InvokedSearch == search_calls > call.calls_before

\* C4: file_preview of a path under none of the configured roots returns an
\* error containing "Access denied" and no file content, whether or not the
\* path exists.
C4_AccessDenied ==
    (Previewed /\ ~UnderRoot(call.path, roots)) =>
        /\ IsErrorResponse
        /\ Contains(resp.error, AccessDeniedText)
        /\ "content" \notin resp.keys

\* C5: for a path outside every configured root the response of file_preview
\* is the same under any other configuration that excludes the path, and the
\* error message contains no configured root path.
C5_NoRootDisclosure ==
    (Previewed /\ ~UnderRoot(call.path, roots)) =>
        /\ \A other \in RootChoices :
              ~UnderRoot(call.path, other) =>
                  resp = FilePreviewCall(fs[call.path], call.path,
                                         call.line_start, call.line_end)
        /\ "error" \in resp.keys =>
              \A k \in 1..Len(roots) : ~Contains(resp.error, roots[k])

\* C6: when the index reports files_indexed = 0, file_search returns the
\* error "No files indexed yet" with a hint, no results, and does not invoke
\* index.search.
C6_EmptyIndexNoSearch ==
    (Searched /\ ~call.status_raises /\ call.indexed_before = 0) =>
        /\ IsErrorResponse
        /\ resp.error = ErrNoFiles
        /\ "hint" \in resp.keys
        /\ "results" \notin resp.keys
        /\ resp.results = << >>
        /\ ~InvokedSearch

\* C6 witness: a search with a query on an index that reports no files was
\* answered with the error.
C6_Witness ==
    /\ Searched
    /\ ~call.status_raises
    /\ call.indexed_before = 0
    /\ call.query # << >>
    /\ resp.error = ErrNoFiles

\* The line arguments of the last file_preview are invalid: line_start is
\* negative, line_end < line_start, or line_start is beyond the last line.
InvalidLines ==
    /\ call.line_start.some
    /\ \/ call.line_start.val < 0
       \/ call.line_end.some /\ call.line_end.val < call.line_start.val
       \/ /\ fs[call.path].kind = "file"
          /\ call.line_start.val > fs[call.path].nlines

\* C7: file_preview with invalid line arguments returns an error response
\* and no content slice, also for an existing readable file.
C7_InvalidLinesRejected ==
    (Previewed /\ InvalidLines) =>
        /\ IsErrorResponse
        /\ "content" \notin resp.keys

\* C8: file_search with an empty query returns an error response in every
\* index state (whatever files_indexed the index reports, a non-empty index
\* included) and does not run the search.
C8_EmptyQueryRejected ==
    (Searched /\ call.query = << >> /\ ~call.status_raises) =>
        /\ IsErrorResponse
        /\ ~InvokedSearch

\* C9: when get_status or index.search raises, file_search returns a
\* structured error response: nothing propagates, no result list is
\* returned.
C9_FailuresBecomeErrorResponses ==
    (Searched /\ (call.status_raises \/ (InvokedSearch /\ call.search_raises))) =>
        /\ IsErrorResponse
        /\ "results" \notin resp.keys

\* ------------------------------------------------ claims: previews, ordering

\* file_search returned a response with results.
GotResults == Searched /\ ~resp.raised /\ "results" \in resp.keys

\* s ends with "...".
EndsWithEllipsis(s) ==
    /\ Len(s) >= Len(Ellipsis)
    /\ SubSeq(s, Len(s) - Len(Ellipsis) + 1, Len(s)) = Ellipsis

\* C11 as claimed: the preview of every chunk of the chunker and of every
\* result of file_search is at most 200 characters long.
C11_PreviewAtMost200 ==
    /\ Chunked =>
          \A i \in 1..Len(returned) :
              Len(returned[i].preview) <= PreviewMaxLen
    /\ GotResults =>
          \A k \in 1..Len(resp.results) :
              Len(resp.results[k].preview) <= ResultPreviewLen

\* C11 amended: a preview is at most 200 characters of text, followed by
\* "..." when it was cut: it is at most 203 characters long, and longer
\* than 200 only when it ends with the marker of a content (for a result:
\* of a stored preview) longer than 200 characters.
C11_PreviewAtMost200PlusMarker ==
    /\ Chunked =>
          \A i \in 1..Len(returned) :
              LET c == returned[i]
              IN  /\ Len(c.preview) <= PreviewMaxLen + Len(Ellipsis)
                  /\ Len(PreviewBody(c)) <= PreviewMaxLen
                  /\ Len(c.preview) > PreviewMaxLen =>
                        /\ Len(c.content) > PreviewMaxLen
                        /\ EndsWithEllipsis(c.preview)
    /\ GotResults =>
          \A k \in 1..Len(resp.results) :
              LET p == resp.results[k].preview
              IN  /\ Len(p) <= ResultPreviewLen + Len(Ellipsis)
                  /\ Len(p) > ResultPreviewLen => EndsWithEllipsis(p)

\* C11 witness: a chunk whose content is longer than 200 characters with no
\* whitespace to strip, so its preview is 203 characters long.
C11_Witness ==
    /\ Chunked
    /\ \E i \in 1..Len(returned) :
          /\ Len(returned[i].content) > PreviewMaxLen
          /\ Len(returned[i].preview) = PreviewMaxLen + Len(Ellipsis)

\* C12: the list chunk_file returns is in ascending order of line_start,
\* whatever the strategy: each chunk starts no later than the next one.
C12_AscendingLineStart ==
    Chunked =>
        \A i \in 1..(Len(returned) - 1) :
            returned[i].line_start <= returned[i + 1].line_start

\* C12 witness: a Python file whose module-level lines come before a
\* function or class; the module chunk, emitted last, is returned first.
C12_Witness ==
    /\ Chunked
    /\ path_suffix = ".py"
    /\ parse_tree.ok
    /\ Len(returned) >= 2
    /\ returned[1].chunk_type = "module"
    /\ returned[2].chunk_type \in {"function", "class"}
    /\ returned[1].line_start < returned[2].line_start

\* The line ranges of chunks a and b share a line / a's range holds b's.
RangesOverlap(a, b) == a.line_start <= b.line_end /\ b.line_start <= a.line_end
RangeHolds(a, b) == a.line_start <= b.line_start /\ b.line_end <= a.line_end

\* Chunk c is the cut chunk of an oversize class.
IsCutClass(c) ==
    /\ c.chunk_type = "class"
    /\ Len(c.content) >= Len(ClassMarker)
    /\ SubSeq(c.content, Len(c.content) - Len(ClassMarker) + 1,
              Len(c.content)) = ClassMarker

\* C13 as claimed: two chunks of one file overlap only when the range of one
\* fully contains the range of the other; there is no partial overlap.
C13_NoPartialOverlap ==
    Chunked =>
        \A i, j \in 1..Len(returned) :
            (i # j /\ RangesOverlap(returned[i], returned[j])) =>
                \/ RangeHolds(returned[i], returned[j])
                \/ RangeHolds(returned[j], returned[i])

\* C13 amended: two chunks of one file overlap only when the range of one
\* fully contains the range of the other, except that window chunks overlap
\* each other by the overlap lines (a later window starts and ends no
\* earlier than a former one), and that the cut chunk of an oversize class
\* may end inside a function or class nested in it.
C13_PartialOverlapOnlyWindowsOrCutClass ==
    Chunked =>
        \A i, j \in 1..Len(returned) :
            (i < j /\ RangesOverlap(returned[i], returned[j])) =>
                LET a == returned[i]
                    b == returned[j]
                IN  \/ RangeHolds(a, b)
                    \/ RangeHolds(b, a)
                    \/ /\ a.chunk_type = "window"
                       /\ b.chunk_type = "window"
                       /\ a.line_start <= b.line_start
                       /\ a.line_end <= b.line_end
                    \/ /\ IsCutClass(a)
                       /\ b.chunk_type \in {"function", "class"}
                       /\ a.line_start < b.line_start
                       /\ a.line_end = a.line_start + ClassPreviewLines

\* C13 witness: a class chunk that is not cut and the chunk of a function
\* nested in it: the ranges overlap and the class's range holds the other.
C13_Witness ==
    /\ Chunked
    /\ \E i, j \in 1..Len(returned) :
          /\ returned[i].chunk_type = "class"
          /\ ~IsCutClass(returned[i])
          /\ returned[j].chunk_type = "function"
          /\ RangesOverlap(returned[i], returned[j])
          /\ RangeHolds(returned[i], returned[j])
          /\ returned[i].line_start < returned[j].line_start

\* ---------------------------------------------------- claims: the Merkle tree

\* The leaf digest of a file record.
RecordHash(path, rec) ==
    LeafHash(path, rec.content_hash, ChunkCountOf(rec.content_hash),
             rec.modified_at)

\* The relative paths present in only one of the two file sets, or present
\* in both with different leaf digests.
ChangedPaths ==
    {p \in RelPaths :
        \/ old_files[p].present # new_files[p].present
        \/ /\ old_files[p].present
           /\ new_files[p].present
           /\ RecordHash(p, old_files[p]) # RecordHash(p, new_files[p])}

OneContentHashDiffers ==
    \E p \in RelPaths :
        /\ old_files[p].present
        /\ new_files[p].present
        /\ old_files[p].content_hash # new_files[p].content_hash
        /\ old_files[p].modified_at = new_files[p].modified_at
        /\ \A q \in RelPaths \ {p} : old_files[q] = new_files[q]

\* C17: two trees built from the same set of entries have equal root
\* hashes, in whatever order the files were added; two trees that differ in
\* the content hash of one file have different root hashes.
C17_RootDeterministic ==
    mpc \in {"built", "diffed"} =>
        /\ old_files = new_files => RootHash(old_tree) = RootHash(new_tree)
        /\ OneContentHashDiffers => RootHash(old_tree) # RootHash(new_tree)

\* C17 witness: the same three files added to the two trees in different
\* orders.
C17_Witness ==
    /\ mpc = "built"
    /\ old_files = new_files
    /\ Len(old_tree) = MaxPaths
    /\ old_tree # new_tree
    /\ RootHash(old_tree) = RootHash(new_tree)

\* -------------------------------------------------------- claims: the engine

\* An incremental update has just returned; the disk is as it scanned it.
IncrDone == build_run.kind = "incr_done"

\* A full build has just returned.
FullDone == build_run.kind = "full_done"

\* The leaves a full build over the files on disk persists.
LeavesOnDisk ==
    {FileNode(p, disk[p].content_hash,
              Cardinality(ChunksOfFile(p, disk[p])), disk[p].modified_at) :
        p \in PresentPaths(disk)}

\* C14: after an incremental update, whatever was added, modified and
\* removed since the index was built, the indexed state (the files, the
\* chunks of each file, the Merkle root) is the one a full build over the
\* files now on disk produces.
C14_IncrementalEqualsFullBuild ==
    IncrDone =>
        /\ store_files = FullBuild(disk).files
        /\ store_chunks = FullBuild(disk).chunks
        /\ vectors = FullBuild(disk).chunks
        /\ {merkle_state[i] : i \in 1..Len(merkle_state)} = LeavesOnDisk
        /\ Len(merkle_state) = Cardinality(LeavesOnDisk)
        /\ RootHash(merkle_state) =
              RootHash(ScanTree(disk, PathSeq(PresentPaths(disk)), EmptyTree))

\* C14 witness: an incremental update over an index built before, with a
\* file added, a file modified and a file removed since.
C14_Witness ==
    /\ IncrDone
    /\ build_run.diff.added # {}
    /\ build_run.diff.modified # {}
    /\ build_run.diff.removed # {}
    /\ \E p \in build_run.diff.modified :
          ChunksOfFile(p, build_run.before[p]) # ChunksOfFile(p, disk[p])

\* The leaf digest of a file record of the engine.
DiskRecordHash(path, rec) ==
    LeafHash(path, rec.content_hash, Cardinality(ChunksOfFile(path, rec)),
             rec.modified_at)

\* C15: after a build over file set A, incremental_update over file set B
\* reports files_added = the paths in B and not in A, files_removed = the
\* paths in A and not in B, files_modified = the paths in both whose leaf
\* hash differs; all three are 0 when B is A.
C15_StatsCountTheDiff ==
    IncrDone =>
        LET A == build_run.before
            B == disk
        IN  /\ build_stats.files_added =
                  Cardinality(PresentPaths(B) \ PresentPaths(A))
            /\ build_stats.files_removed =
                  Cardinality(PresentPaths(A) \ PresentPaths(B))
            /\ build_stats.files_modified =
                  Cardinality({p \in PresentPaths(A) \cap PresentPaths(B) :
                                 DiskRecordHash(p, A[p]) # DiskRecordHash(p, B[p])})
            /\ A = B => /\ build_stats.files_added = 0
                        /\ build_stats.files_modified = 0
                        /\ build_stats.files_removed = 0

\* C15 witness: an incremental update that reports one file added, one
\* modified (same content hash, later timestamp) and one removed.
C15_Witness ==
    /\ IncrDone
    /\ build_stats.files_added = 1
    /\ build_stats.files_modified = 1
    /\ build_stats.files_removed = 1
    /\ \E p \in build_run.diff.modified :
          build_run.before[p].content_hash = disk[p].content_hash

FailingPaths(files) == {p \in PresentPaths(files) : ~files[p].chunkable}

\* The number of chunks of the files of a set of paths.
RECURSIVE ChunkTotal(_, _)
ChunkTotal(files, paths) ==
    IF paths = {} THEN 0
    ELSE LET p == CHOOSE x \in paths : TRUE
         IN  (IF files[p].chunkable THEN ChunkCountOf(files[p].content_hash)
              ELSE 0) + ChunkTotal(files, paths \ {p})

\* C19: a file whose chunking fails does not abort a build: the build can
\* complete, and then the file is recorded, with no chunks, and counted in
\* files_indexed, and chunks_indexed counts the chunks of the other files.
C19_ChunkFailureDoesNotAbort ==
    /\ build_run.kind = "full" => ENABLED BuildCommit
    /\ FullDone =>
          /\ \A p \in FailingPaths(disk) :
                /\ store_files[p] = disk[p]
                /\ {c \in store_chunks : c.path = p} = {}
          /\ build_stats.files_indexed = Cardinality(PresentPaths(disk))
          /\ build_stats.chunks_indexed =
                ChunkTotal(disk, PresentPaths(disk) \ FailingPaths(disk))

\* C19 witness: a full build over a file whose chunking fails and a file
\* that gives chunks has returned.
C19_Witness ==
    /\ FullDone
    /\ FailingPaths(disk) # {}
    /\ build_stats.chunks_indexed > 0
    /\ build_stats.files_indexed >= 2

\* ------------------------------------------- claims: file_preview failures

Scanned == call.op = "file_index_scan"

\* C21: when build_index raises during file_index_scan, file_index_scan
\* does not raise and returns success = False with an 'error' and a 'hint'
\* field; when build_index succeeds it returns success = True with the
\* build's files_indexed and chunks_indexed.
C21_ScanFailureBecomesResponse ==
    Scanned =>
        /\ ~resp.raised
        /\ call.build.raises =>
              /\ "success" \in resp.keys /\ resp.success = FALSE
              /\ "error" \in resp.keys /\ resp.error # << >>
              /\ "hint" \in resp.keys
        /\ ~call.build.raises =>
              /\ "success" \in resp.keys /\ resp.success = TRUE
              /\ "files_indexed" \in resp.keys
              /\ resp.files_indexed = call.build.files_indexed
              /\ "chunks_indexed" \in resp.keys
              /\ resp.chunks_indexed = call.build.chunks_indexed

\* C21 witness: a scan whose build_index raised has returned its response.
C21_Witness ==
    /\ Scanned
    /\ call.build.raises
    /\ ~resp.raised
    /\ resp.success = FALSE

PreviewedFrom ==
    /\ Previewed
    /\ fs[call.path].kind = "file"
    /\ call.line_start.some
    /\ call.line_start.val >= 1

\* C29: for an existing file and any line_start >= 1, the k-th line
\* file_preview returns is file line line_start + k - 1 and is labelled with
\* that number, at most 100 lines are returned, and 'lines' reports the
\* numbers of the first and the last returned line; no line is returned
\* only for line arguments that are out of range.
C29_PreviewLineNumbers ==
    PreviewedFrom =>
        /\ ~resp.raised /\ "content" \in resp.keys
        /\ \A k \in 1..Len(resp.content) :
              /\ resp.content[k].line = call.line_start.val + k - 1
              /\ resp.content[k].n = resp.content[k].line
        /\ Len(resp.content) <= PreviewLineLimit
        /\ resp.content # << >> =>
              resp.lines = <<resp.content[1].n,
                             resp.content[Len(resp.content)].n>>
        /\ resp.content = << >> => InvalidLines

\* C29 witness: a preview from line 2 of a file of more than 100 lines
\* has returned 100 numbered lines.
C29_Witness ==
    /\ PreviewedFrom
    /\ call.line_start.val = 2
    /\ Len(resp.content) = PreviewLineLimit
    /\ resp.lines = <<2, PreviewLineLimit + 1>>

\* ------------------------------------------- claims: get_index_instance

\* C27: under any interleaving of concurrent callers at most one FileIndex
\* is ever constructed, and every call that returns returns that one
\* instance, which is the one the module global holds.
C27_LazySingleton ==
    /\ constructed <= 1
    /\ \A t \in Tasks :
          tasks[t].got > 0 =>
              /\ tasks[t].got = module_index
              /\ \A u \in Tasks : tasks[u].got > 0 => tasks[u].got = tasks[t].got

\* C27 witness: three concurrent calls have returned the same instance: one
\* constructed it, one found it under the lock, one at the first check.
C27_Witness ==
    /\ \A t \in Tasks : tasks[t].pc = "done" /\ tasks[t].got = 1
    /\ \E t \in Tasks : tasks[t].via = "constructed"
    /\ \E t \in Tasks : tasks[t].via = "second check"
    /\ \E t \in Tasks : tasks[t].via = "first check"
    /\ {tasks[t].op : t \in Tasks} = IndexTools

\* ------------------------------------------------ claims: token estimates

\* The texts chunk_file has estimated: the file content and the content of
\* every chunk it returned.
EstimatedTexts ==
    IF cpc = "done" /\ readable
    THEN {file_content} \cup {returned[i].content : i \in 1..Len(returned)}
    ELSE {}

\* C24: the token estimate equals round(word_count * 1.3) for every word
\* count.
C24_EstimateIsRounded ==
    \A text \in EstimatedTexts :
        EstimateTokens(text) = RoundedTokens(WordCount(text))

\* C24, amended: the token estimate is word_count * 1.3 rounded down: the
\* integer e with e <= 1.3 * word_count < e + 1.
C24_EstimateIsRoundedDown ==
    \A text \in EstimatedTexts :
        /\ 10 * EstimateTokens(text) <= 13 * WordCount(text)
        /\ 13 * WordCount(text) < 10 * (EstimateTokens(text) + 1)

\* C24 witness: with max_tokens = 1 a function of two words (1.3 * 2 = 2.6)
\* is emitted as a function chunk: its estimate is 2, not above the
\* oversize threshold 2, where the rounded value 3 would be.
C24_Witness ==
    /\ cpc = "done"
    /\ chunker.max_tokens = 1
    /\ \E i \in 1..Len(returned) :
          /\ returned[i].chunk_type = "function"
          /\ WordCount(returned[i].content) = 2
          /\ EstimateTokens(returned[i].content) = 2
          /\ RoundedTokens(WordCount(returned[i].content)) = 3

\* ------------------------------------------- claims: Python definitions

\* chunk_file has returned for a .py file that parsed.
PythonParsed == Chunked /\ path_suffix = ".py" /\ parse_tree.ok

\* Definition node n lies inside another function or class.
IsNested(n) == \E m \in parse_tree.nodes : m # n /\ Inside(n, m)

\* Those of the chunks (the ones _chunk_python emits, before the min_tokens
\* filter of chunk_file) that are of the kind of node n and start at its
\* first decorator line (its header line when it has no decorator).
ChunksOfNode(chunks, n) ==
    {i \in 1..Len(chunks) :
        /\ chunks[i].chunk_type = n.kind
        /\ chunks[i].line_start = NodeStart(n)
        /\ chunks[i].name = n.name}

\* The token estimate of the source lines of node n exceeds 2 * max_tokens.
Oversize(n) ==
    EstimateTokens(RangeText(NodeStart(n), NodeEnd(n))) > chunker.max_tokens * 2

\* C22: for a parseable Python file each top-level def / async def / class
\* yields one chunk starting at its first decorator line, and no chunk is
\* emitted for a definition nested inside another function or class.
C22_TopLevelDefinitionsOnly ==
    PythonParsed =>
        LET emitted == Produced
        IN  \A n \in parse_tree.nodes :
                IF IsNested(n) THEN ChunksOfNode(emitted, n) = {}
                ELSE Cardinality(ChunksOfNode(emitted, n)) = 1

\* C22, amended: every def / async def / class of the file, top-level or
\* nested at any depth, yields one chunk starting at its first decorator
\* line, except a function whose token estimate exceeds 2 * max_tokens,
\* which yields none; every function or class chunk is the chunk of a
\* definition.
C22_DefinitionsAtEveryDepth ==
    PythonParsed =>
        LET emitted == Produced
        IN  /\ \A n \in parse_tree.nodes :
                  Cardinality(ChunksOfNode(emitted, n)) =
                      IF n.kind = "function" /\ Oversize(n) THEN 0 ELSE 1
            /\ \A i \in 1..Len(emitted) :
                  emitted[i].chunk_type \in {"function", "class"} =>
                      \E n \in parse_tree.nodes : i \in ChunksOfNode(emitted, n)

\* C22 witness: a class and a function nested in it have both been
\* emitted as chunks, and chunk_file has returned both.
C22_Witness ==
    /\ PythonParsed
    /\ \E m, n \in parse_tree.nodes :
          /\ m.kind = "class" /\ n.kind = "function"
          /\ Inside(n, m)
          /\ ChunksOfNode(returned, m) # {}
          /\ ChunksOfNode(returned, n) # {}

\* Line l of the file lies in returned chunk i.
LineIn(l, i) == returned[i].line_start <= l /\ l <= returned[i].line_end

\* C25: a Python function whose token estimate exceeds 2 * max_tokens is
\* not emitted as a function chunk, and its lines are handled by the
\* sliding window: each of them lies in a returned window chunk (or in the
\* chunk of a definition nested in the function).
C25_OversizeFunctionWindowed ==
    PythonParsed =>
        \A n \in parse_tree.nodes :
            (n.kind = "function" /\ Oversize(n)) =>
                /\ ChunksOfNode(returned, n) = {}
                /\ \A l \in NodeStart(n)..NodeEnd(n) :
                      \E i \in 1..Len(returned) :
                          /\ LineIn(l, i)
                          /\ \/ returned[i].chunk_type = "window"
                             \/ \E m \in parse_tree.nodes :
                                   /\ Inside(m, n)
                                   /\ returned[i].chunk_type = m.kind
                                   /\ returned[i].line_start = NodeStart(m)

\* ------------------------------------------- claims: Markdown sections

\* The lines of the file.
FileLinesOf == SplitLines(file_content)

\* The numbers of the lines that are headings of level 1 to 6.
HeadingLines == {l \in 1..Len(FileLinesOf) : HeadingMatches(FileLinesOf[l])}

\* chunk_file has returned for a .md file with at least one heading.
MarkdownWithHeadings == Chunked /\ path_suffix = ".md" /\ HeadingLines # {}

\* The last line of the section of the heading on line l: the line before
\* the next heading of the same or a higher level, or the last line.
SectionLastLine(l) ==
    LET closing == {k \in HeadingLines :
                       /\ k > l
                       /\ HeadingLevel(FileLinesOf[k]) <= HeadingLevel(FileLinesOf[l])}
    IN  IF closing = {} THEN Len(FileLinesOf)
        ELSE (CHOOSE k \in closing : \A j \in closing : k <= j) - 1

\* C23: for a Markdown file with at least one heading, every heading of
\* level 1-6 yields one section chunk (of _chunk_markdown, before the
\* min_tokens filter of chunk_file) that starts at the heading line, ends
\* at the line before the next heading of equal or higher level, or at the
\* end of the file, and is named by the heading text; there is no other
\* chunk.
C23_SectionPerHeading ==
    MarkdownWithHeadings =>
        LET emitted == Produced
        IN  /\ \A l \in HeadingLines :
                  Cardinality({i \in 1..Len(emitted) :
                      /\ emitted[i].chunk_type = "section"
                      /\ emitted[i].line_start = l
                      /\ emitted[i].line_end = SectionLastLine(l)
                      /\ emitted[i].name = HeadingTitle(FileLinesOf[l])}) = 1
            /\ Len(emitted) = Cardinality(HeadingLines)

\* C23 witness: a level-1 heading followed by a level-2 heading and a text
\* line: the first section runs to the end of the file, over the second.
C23_Witness ==
    /\ MarkdownWithHeadings
    /\ Len(returned) = 2
    /\ \E l, k \in HeadingLines :
          /\ l < k
          /\ HeadingLevel(FileLinesOf[l]) < HeadingLevel(FileLinesOf[k])
          /\ SectionLastLine(l) = Len(FileLinesOf)
          /\ SectionLastLine(l) > k
          /\ returned[1].line_start = l /\ returned[1].line_end = Len(FileLinesOf)
          /\ returned[2].line_start = k

\* ------------------------------------------- claims: the sliding window

\* max_chars of _chunk_sliding_window for the file: the character
\* equivalent of max_tokens.
MaxCharsOfFile ==
    (chunker.max_tokens * Len(file_content)) \div EstimateTokens(file_content)

\* The size the window loop counts for a chunk: the sum over its lines of
\* the line length + 1.
WindowSize(c) == Len(c.content) + 1

\* C26: every window chunk that holds two or more lines has a total size
\* (sum over its lines of line length + 1) of at most max_chars, windows
\* that start with overlap lines included.
C26_WindowWithinMaxChars ==
    Chunked =>
        \A i \in 1..Len(returned) :
            (returned[i].chunk_type = "window"
                /\ returned[i].line_end > returned[i].line_start) =>
                    WindowSize(returned[i]) <= MaxCharsOfFile

\* The windows _chunk_sliding_window makes of the file, before the
\* min_tokens filter of chunk_file.
WindowsOfFile == ChunkSlidingWindow(chunker, file_content)

\* C28: for a content with a non-zero token estimate the windows of
\* _chunk_sliding_window cover the file without gaps: the first starts at
\* line 1, the last ends at the last line, each following window starts no
\* later than the line after the end of the previous one, and line_end
\* strictly increases from window to window.
C28_WindowsCoverFile ==
    (Chunked /\ EstimateTokens(file_content) # 0) =>
        LET w == WindowsOfFile
        IN  /\ w # << >>
            /\ w[1].line_start = 1
            /\ w[Len(w)].line_end = FileLineCount
            /\ \A i \in 1..(Len(w) - 1) :
                  /\ w[i + 1].line_start <= w[i].line_end + 1
                  /\ w[i].line_end < w[i + 1].line_end
            /\ \A i \in 1..Len(w) : w[i].chunk_type = "window"

\* C28 witness: chunk_file has returned three or more windows of a file,
\* one starting right after the previous one and one overlapping it.
C28_Witness ==
    /\ Chunked
    /\ returned = WindowsOfFile
    /\ Len(returned) >= 3
    /\ \E i \in 1..(Len(returned) - 1) :
          returned[i + 1].line_start = returned[i].line_end + 1
    /\ \E i \in 1..(Len(returned) - 1) :
          /\ returned[i + 1].line_start <= returned[i].line_end
          /\ returned[i + 1].line_start > returned[i].line_start

====
